---- MODULE Spec2Model ----
(***************************************************************************)
(* Resource pool (IdPool, Collection/Managed), immediate-data allocator    *)
(* (ImmediateManager) and draw-call batching (execute_ordered_draw_calls)  *)
(* of the wgpurenderer crate.                                              *)
(***************************************************************************)
EXTENDS Integers, Sequences, FiniteSets, TLC

VARIABLES
    build,      \* cargo profile: "dev" (overflow checks, debug_assert) or "release"
    panicked,   \* "none", or the message of the panic that aborted the program
    last,       \* the operation that ran last: [op, arg, ret]
    pool,       \* a stand-alone utils::IdPool: [current, available]
    issued,     \* ids handed out by `pool` and not freed since
    coll,       \* shader::CollectionInner: [data, id_pool]
    handles,    \* the Managed<T> values that exist, grouped by shared counter cell
    imm,        \* lib::ImmediateManager: [entries, id_pool, bytes]
    draw_calls, \* RenderPass::draw_calls, sorted in place by a render
    submitted,  \* the draw calls in the order the application submitted them
    cmds,       \* the commands recorded on the wgpu render pass by the last render
    trace,      \* history: the calls made on the traced ImmediateManager, oldest first
    pass,       \* the RenderPass around draw_calls: [executor, executed, begun]
    pool_base,  \* the counter value the stand-alone pool was created with
    ssbo,       \* ssbo::SsboManagerInner with the counters of its Uniform handles
    transform,  \* transform::Transform: [position, orientation, scale, model, normal_matrix]
    written     \* the live allocation last written through get_mut: None or Some([id, data])

vars == <<build, panicked, last, pool, issued, coll, handles, imm,
          draw_calls, submitted, cmds, trace, pass, pool_base,
          ssbo, transform, written>>

\* the state of the components added to the model after the resource pool, the
\* allocator and the batching
ext == <<pass, pool_base, ssbo, transform, written>>

----------------------------------------------------------------------------
(* Bounds of the model *)

\* ids a pool may issue before the model stops asking for new ones
MaxIds == 5
\* ids a collection may issue before the model stops creating entries
MaxEntries == 2
\* Managed values (handles) that may exist at once
MaxHandles == 3

Profiles == {"dev", "release"}

\* Option<T>: None is the empty sequence, Some(x) the one-element sequence
None == <<>>
Some(x) == <<x>>

Call(op, arg, ret) == [op |-> op, arg |-> arg, ret |-> ret]
NoCall == Call("none", -1, -1)

\* a RenderPass without an executor that has not rendered: `executed` counts the calls
\* of executor.execute, `begun` the calls of encoder.begin_render_pass
NoPass == [executor |-> FALSE, executed |-> 0, begun |-> 0]

\* no SsboManager was built
NoSsbo == <<>>

\* no Transform was built
NoTransform == <<>>

\* the components a specification does not use
IdleExt ==
    /\ pass = NoPass
    /\ pool_base = 0
    /\ ssbo = NoSsbo
    /\ transform = NoTransform
    /\ written = None

Max(a, b) == IF a >= b THEN a ELSE b
RemoveAt(s, i) == SubSeq(s, 1, i - 1) \o SubSeq(s, i + 1, Len(s))
InsertAt(s, i, e) == SubSeq(s, 1, i - 1) \o <<e>> \o SubSeq(s, i, Len(s))
\* occurrences of x in the sequence s
Count(s, x) == Cardinality({i \in 1..Len(s) : s[i] = x})

----------------------------------------------------------------------------
(* utils::IdPool *)

IdPool_new == [current |-> 0, available |-> <<>>]

\* with_base: a new pool whose counter starts at base
IdPool_with_base(base) == [IdPool_new EXCEPT !.current = base]

\* get_next that hands out the oldest freed id but pops the newest
IdPool_get_next_first(p) ==
    IF p.available # <<>>
    THEN [id |-> p.available[1],
          pool |-> [p EXCEPT !.available = SubSeq(p.available, 1, Len(p.available) - 1)]]
    ELSE [id |-> p.current, pool |-> [p EXCEPT !.current = p.current + 1]]

\* get_next that increments the counter on every call, recycled id or not
IdPool_get_next_bump(p) ==
    IF p.available # <<>>
    THEN [id |-> p.available[Len(p.available)],
          pool |-> [p EXCEPT !.available = SubSeq(p.available, 1, Len(p.available) - 1),
                             !.current = p.current + 1]]
    ELSE [id |-> p.current, pool |-> [p EXCEPT !.current = p.current + 1]]

\* get_next: pop the free list, else hand out the counter and increment it
IdPool_get_next(p) ==
    IF p.available # <<>>
    THEN [id |-> p.available[Len(p.available)],
          pool |-> [p EXCEPT !.available = SubSeq(p.available, 1, Len(p.available) - 1)]]
    ELSE [id |-> p.current, pool |-> [p EXCEPT !.current = p.current + 1]]

\* a free that checks the id and forgets to push it
IdPool_free_forgets(p, id, profile) ==
    IF profile = "dev" /\ ~(id < p.current)
    THEN [pool |-> p, panic |-> "never created by the pool"]
    ELSE [pool |-> p, panic |-> "none"]

\* debug_assert!(id < current) is compiled only into the dev profile
IdPool_free(p, id, profile) ==
    IF profile = "dev" /\ ~(id < p.current)
    THEN [pool |-> p, panic |-> "never created by the pool"]
    ELSE [pool |-> [p EXCEPT !.available = Append(p.available, id)], panic |-> "none"]

----------------------------------------------------------------------------
(* shader::CollectionInner over sorted_vec::SortedVec<Entry<T>> *)

Values == {"v"}

Entry(val, id) == [val |-> val, id |-> id]

RECURSIVE BinarySearch(_, _, _, _)
\* slice::binary_search_by_key over data[lo+1 .. hi]: Ok(index) or Err(insertion point),
\* indices 0-based as in the source
BinarySearch(data, id, lo, hi) ==
    IF lo >= hi THEN [ok |-> FALSE, index |-> lo]
    ELSE LET mid == lo + ((hi - lo) \div 2) IN
         IF data[mid + 1].id = id THEN [ok |-> TRUE, index |-> mid]
         ELSE IF data[mid + 1].id < id THEN BinarySearch(data, id, mid + 1, hi)
         ELSE BinarySearch(data, id, lo, mid)

binary_search_by_key(data, id) == BinarySearch(data, id, 0, Len(data))

\* a push that appends instead of inserting at the sorted position
SortedVec_push_append(data, entry) == Append(data, entry)

\* SortedVec::push: insert at the position the binary search gives
SortedVec_push(data, entry) ==
    InsertAt(data, binary_search_by_key(data, entry.id).index + 1, entry)

CollectionInner_new == [data |-> <<>>, id_pool |-> IdPool_new]

CollectionInner_create(c, val) ==
    LET n == IdPool_get_next(c.id_pool) IN
    [id |-> n.id,
     coll |-> [data |-> SortedVec_push(c.data, Entry(val, n.id)), id_pool |-> n.pool]]

\* a delete that returns normally when the lookup finds no entry
CollectionInner_delete_lenient(c, id, profile) ==
    LET f == IdPool_free(c.id_pool, id, profile)
        found == binary_search_by_key(c.data, id)
    IN  IF f.panic # "none" THEN [coll |-> c, panic |-> f.panic]
        ELSE IF ~found.ok
             THEN [coll |-> [c EXCEPT !.id_pool = f.pool], panic |-> "none"]
             ELSE [coll |-> [data |-> RemoveAt(c.data, found.index + 1), id_pool |-> f.pool],
                   panic |-> "none"]

\* delete frees the id first and only then looks the entry up
CollectionInner_delete(c, id, profile) ==
    LET f == IdPool_free(c.id_pool, id, profile)
        found == binary_search_by_key(c.data, id)
    IN  IF f.panic # "none" THEN [coll |-> c, panic |-> f.panic]
        ELSE IF ~found.ok
             THEN [coll |-> [c EXCEPT !.id_pool = f.pool], panic |-> "Value is not present"]
             ELSE [coll |-> [data |-> RemoveAt(c.data, found.index + 1), id_pool |-> f.pool],
                   panic |-> "none"]

\* get_clone's lookup: does the binary search find the id
Lookup(c, id) == binary_search_by_key(c.data, id).ok

Ids(c) == {c.data[i].id : i \in 1..Len(c.data)}

----------------------------------------------------------------------------
(* lib::ImmediateManager *)

\* smallest buffer a growth allocates, and smallest slot table
MinBytes == 64
MinEntries == 8

Range(start, end) == [start |-> start, end |-> end]

Repeat(x, n) == [i \in 1..n |-> x]

\* a resize that hands back a vector of the new length with nothing of the old one
Resize_cleared(v, new_len, fill) == Repeat(fill, new_len)

\* Vec::resize for a growing vector: pad with `fill` up to new_len
Resize(v, new_len, fill) ==
    IF new_len >= Len(v) THEN v \o Repeat(fill, new_len - Len(v)) ELSE SubSeq(v, 1, new_len)

ImmediateManager_new == [entries |-> <<>>, id_pool |-> IdPool_new, bytes |-> <<>>]

RECURSIVE Flatten(_)
\* entries.iter().flatten(): the Some ranges, in slot order
Flatten(entries) ==
    IF entries = <<>> THEN <<>>
    ELSE Head(entries) \o Flatten(Tail(entries))

RECURSIVE InsertByStart(_, _)
InsertByStart(sorted, r) ==
    IF sorted = <<>> THEN <<r>>
    ELSE IF r.start < Head(sorted).start THEN <<r>> \o sorted
    ELSE <<Head(sorted)>> \o InsertByStart(Tail(sorted), r)

RECURSIVE SortByStart(_)
\* sort_by_key(|r| r.start) is stable: ranges with equal start keep their slot order
SortByStart(rs) ==
    IF rs = <<>> THEN <<>>
    ELSE InsertByStart(SortByStart(SubSeq(rs, 1, Len(rs) - 1)), rs[Len(rs)])

\* a scan that never takes a gap in front of a live range: it always ends behind the
\* last one
Scan_append(occupied, start_pos, size, profile) ==
    [found |-> None,
     start_pos |-> IF occupied = <<>> THEN start_pos ELSE occupied[Len(occupied)].end,
     panic |-> "none"]

RECURSIVE Scan(_, _, _, _)
\* the first-fit loop over the occupied ranges. `range.start - start_pos` is a usize
\* subtraction: below zero it panics under overflow checks (dev) and wraps to
\* 2^64 - (start_pos - range.start) otherwise, which is >= every size below 2^63
Scan(occupied, start_pos, size, profile) ==
    IF occupied = <<>> THEN [found |-> None, start_pos |-> start_pos, panic |-> "none"]
    ELSE LET range == Head(occupied) IN
         IF range.start < start_pos
         THEN IF profile = "dev"
              THEN [found |-> None, start_pos |-> start_pos,
                    panic |-> "attempt to subtract with overflow"]
              ELSE [found |-> Some(Range(start_pos, start_pos + size)),
                    start_pos |-> start_pos, panic |-> "none"]
         ELSE IF range.start - start_pos >= size
              THEN [found |-> Some(Range(start_pos, start_pos + size)),
                    start_pos |-> start_pos, panic |-> "none"]
              ELSE Scan(Tail(occupied), range.end, size, profile)

\* `bytes.len() - start_pos < size`, with the same usize subtraction
NeedsGrowth(len, start_pos, size) == len >= start_pos /\ len - start_pos < size

\* a growth that doubles the end of the new allocation
new_size_double_end(len, start_pos, size) ==
    Max(Max(len * 2, (start_pos + size) * 2), MinBytes)

\* the length a growth resizes the buffer to
new_size(len, start_pos, size) == Max(Max(len * 2, start_pos + size * 2), MinBytes)

ImmediateManager_add(m, size, profile) ==
    LET occupied == SortByStart(Flatten(m.entries))
        scan == Scan(occupied, 0, size, profile)
        tail_panic == /\ scan.found = None
                      /\ Len(m.bytes) < scan.start_pos
                      /\ profile = "dev"
        bytes == IF scan.found = None /\ NeedsGrowth(Len(m.bytes), scan.start_pos, size)
                 THEN Resize(m.bytes, new_size(Len(m.bytes), scan.start_pos, size), 0)
                 ELSE m.bytes
        range == IF scan.found = None
                 THEN Range(scan.start_pos, scan.start_pos + size)
                 ELSE scan.found[1]
        n == IdPool_get_next(m.id_pool)
        idx == n.id
        new_len == Max(Max(Len(m.entries) * 2, idx + 1), MinEntries)
        entries == IF idx >= Len(m.entries) THEN Resize(m.entries, new_len, None)
                   ELSE m.entries
    IN  IF scan.panic # "none" THEN [id |-> -1, imm |-> m, panic |-> scan.panic]
        ELSE IF tail_panic
             THEN [id |-> -1, imm |-> m, panic |-> "attempt to subtract with overflow"]
             ELSE [id |-> idx,
                   imm |-> [entries |-> [entries EXCEPT ![idx + 1] = Some(range)],
                            id_pool |-> n.pool,
                            bytes |-> bytes],
                   panic |-> "none"]

\* entries.get(id): None beyond the slot table, else the slot
Slot(m, id) == IF id >= 0 /\ id < Len(m.entries) THEN m.entries[id + 1] ELSE None

\* a remove that also gives the bytes behind the removed range back
ImmediateManager_remove_shrink(m, id, profile) ==
    IF Slot(m, id) # None
    THEN LET f == IdPool_free(m.id_pool, id, profile) IN
         [imm |-> [m EXCEPT !.entries[id + 1] = None, !.id_pool = f.pool,
                            !.bytes = SubSeq(m.bytes, 1, Slot(m, id)[1].end)],
          panic |-> f.panic]
    ELSE [imm |-> m, panic |-> "none"]

\* a remove that returns the id to the pool and leaves the range in its slot
ImmediateManager_remove_keep(m, id, profile) ==
    IF Slot(m, id) # None
    THEN LET f == IdPool_free(m.id_pool, id, profile) IN
         [imm |-> [m EXCEPT !.id_pool = f.pool], panic |-> f.panic]
    ELSE [imm |-> m, panic |-> "none"]

\* a remove that empties the slot and never gives the id back to the pool
ImmediateManager_remove_nofree(m, id, profile) ==
    IF Slot(m, id) # None
    THEN [imm |-> [m EXCEPT !.entries[id + 1] = None], panic |-> "none"]
    ELSE [imm |-> m, panic |-> "none"]

\* a remove that frees the id whether or not the slot held a range
ImmediateManager_remove_always_frees(m, id, profile) ==
    LET f == IdPool_free(m.id_pool, id, profile)
        entries == IF id < Len(m.entries) THEN [m.entries EXCEPT ![id + 1] = None]
                   ELSE m.entries
    IN  [imm |-> [m EXCEPT !.entries = entries, !.id_pool = f.pool], panic |-> f.panic]

\* remove: take the range out of the slot and, if there was one, free the id
ImmediateManager_remove(m, id, profile) ==
    IF Slot(m, id) # None
    THEN LET f == IdPool_free(m.id_pool, id, profile) IN
         [imm |-> [m EXCEPT !.entries[id + 1] = None, !.id_pool = f.pool],
          panic |-> f.panic]
    ELSE [imm |-> m, panic |-> "none"]

LiveIds(m) == {id \in 0..(Len(m.entries) - 1) : m.entries[id + 1] # None}
RangeOf(m, id) == m.entries[id + 1][1]

\* get: None for an empty or missing slot, else `&bytes[range]`, which panics when the
\* range ends beyond the buffer
ImmediateManager_get(m, id) ==
    IF Slot(m, id) = None THEN [slice |-> None, panic |-> "none"]
    ELSE LET range == RangeOf(m, id) IN
         IF range.end > Len(m.bytes)
         THEN [slice |-> None, panic |-> "range end index out of range for slice"]
         ELSE [slice |-> Some(SubSeq(m.bytes, range.start + 1, range.end)),
               panic |-> "none"]

\* get_mut: the same lookup, handing out the slice mutably
ImmediateManager_get_mut(m, id) == ImmediateManager_get(m, id)

\* the caller fills the slice get_mut hands out with the byte b
ImmediateManager_write(m, id, b) ==
    LET g == ImmediateManager_get_mut(m, id) IN
    IF g.panic # "none" \/ g.slice = None THEN [imm |-> m, panic |-> g.panic]
    ELSE LET range == RangeOf(m, id) IN
         [imm |-> [m EXCEPT !.bytes = [i \in 1..Len(m.bytes) |->
                                          IF range.start < i /\ i <= range.end THEN b
                                          ELSE m.bytes[i]]],
          panic |-> "none"]

----------------------------------------------------------------------------
(* renderpass::execute_ordered_draw_calls *)

\* inline capacity and initial length of the bind-group cache
CacheSize == 3

\* a command recorded on the render pass; `dc` is the position, in emission order, of
\* the draw call it was recorded for
Cmd(op, a, b, dc) == [op |-> op, a |-> a, b |-> b, dc |-> dc]

RECURSIVE IterCmp(_, _)
\* Iterator::cmp: lexicographic, a proper prefix is Less
IterCmp(s, t) ==
    IF s = <<>> THEN (IF t = <<>> THEN "Equal" ELSE "Less")
    ELSE IF t = <<>> THEN "Greater"
    ELSE IF Head(s) < Head(t) THEN "Less"
    ELSE IF Head(s) > Head(t) THEN "Greater"
    ELSE IterCmp(Tail(s), Tail(t))

\* a comparator that looks at the bind groups before the pipeline
CompareBindGroupsFirst(a, b) ==
    IF IterCmp(a.bind_groups, b.bind_groups) # "Equal"
    THEN IterCmp(a.bind_groups, b.bind_groups)
    ELSE IF a.render_pipeline_handle < b.render_pipeline_handle THEN "Less"
    ELSE IF a.render_pipeline_handle > b.render_pipeline_handle THEN "Greater"
    ELSE "Equal"

\* the sort_by closure: pipeline first, then the bind-group sequence
Compare(a, b) ==
    IF a.render_pipeline_handle < b.render_pipeline_handle THEN "Less"
    ELSE IF a.render_pipeline_handle > b.render_pipeline_handle THEN "Greater"
    ELSE IterCmp(a.bind_groups, b.bind_groups)

RECURSIVE InsertBeforeEqual(_, _)
\* an insertion that puts the element in front of the elements it compares equal to
InsertBeforeEqual(sorted, x) ==
    IF sorted = <<>> THEN <<x>>
    ELSE IF Compare(x, Head(sorted)) # "Greater" THEN <<x>> \o sorted
    ELSE <<Head(sorted)>> \o InsertBeforeEqual(Tail(sorted), x)

RECURSIVE InsertStable(_, _)
InsertStable(sorted, x) ==
    IF sorted = <<>> THEN <<x>>
    ELSE IF Compare(x, Head(sorted)) = "Less" THEN <<x>> \o sorted
    ELSE <<Head(sorted)>> \o InsertStable(Tail(sorted), x)

RECURSIVE StableSort_reversing(_)
\* a sort that inserts from the back of the list: equal elements come out reversed
StableSort_reversing(dcs) ==
    IF dcs = <<>> THEN <<>>
    ELSE InsertStable(StableSort_reversing(Tail(dcs)), Head(dcs))

RECURSIVE StableSort(_)
StableSort(dcs) ==
    IF dcs = <<>> THEN <<>>
    ELSE InsertStable(StableSort(SubSeq(dcs, 1, Len(dcs) - 1)), dcs[Len(dcs)])

\* a batching that leaves the list in submission order
sort_by_skipped(dcs) == dcs

\* slice::sort_by: a stable sort under Compare
sort_by(dcs) == StableSort(dcs)

\* a pipeline change that resets the first cache entry only
CacheFillFirst(cache) == [cache EXCEPT ![1] = None]

\* a pipeline change that keeps the cached bind groups
CacheKept(cache) == cache

\* current_bind_groups.fill(None)
CacheFill(cache) == [i \in 1..Len(cache) |-> None]

\* a store that lets the cache grow to hold a slot beyond its length
CacheStoreResizing(cache, i, id) ==
    [Resize(cache, Max(Len(cache), i + 1), None) EXCEPT ![i + 1] = Some(id)]

\* a bind that forgets to record the bind group in the cache
CacheNotStored(cache, i, id) == cache

\* current_bind_groups[i] = Some(id), for i inside the cache
CacheStore(cache, i, id) ==
    IF i < Len(cache) THEN [cache EXCEPT ![i + 1] = Some(id)] ELSE cache

RECURSIVE SetBindGroups(_, _, _, _)
\* step 2 of the loop body: bind the groups whose slot is not cached with that id;
\* i is the 0-based slot
SetBindGroups(bind_groups, i, cache, dc) ==
    IF i >= Len(bind_groups) THEN [cmds |-> <<>>, cache |-> cache]
    ELSE LET id == bind_groups[i + 1]
             bind == i >= Len(cache) \/ cache[i + 1] # Some(id)
             cache2 == IF bind THEN CacheStore(cache, i, id) ELSE cache
             rest == SetBindGroups(bind_groups, i + 1, cache2, dc)
         IN  [cmds |-> (IF bind THEN <<Cmd("set_bind_group", i, id, dc)>> ELSE <<>>)
                       \o rest.cmds,
              cache |-> rest.cache]

\* a vertex-buffer step that binds the first buffer only
SetVertexBuffers_first_only(n, dc) ==
    [i \in 1..(IF n > 0 THEN 1 ELSE 0) |-> Cmd("set_vertex_buffer", i - 1, 0, dc)]

\* step 3: one vertex-buffer bind per buffer of the geometry, never skipped
SetVertexBuffers(n, dc) == [i \in 1..n |-> Cmd("set_vertex_buffer", i - 1, 0, dc)]

\* an immediates step that does not look the id up
SetImmediates_unchecked(immediates, m, dc) ==
    IF immediates # None
    THEN <<Cmd("set_immediates", 0, immediates[1], dc)>>
    ELSE <<>>

\* the immediates of the draw call, when its id resolves in the manager
SetImmediates(immediates, m, dc) ==
    IF immediates # None /\ ImmediateManager_get(m, immediates[1]).slice # None
    THEN <<Cmd("set_immediates", 0, immediates[1], dc)>>
    ELSE <<>>

\* a draw step that always records the non-indexed draw
DrawNeverIndexed(d, dc) == <<Cmd("draw", d.count, d.instance_count, dc)>>

\* the index-buffer bind and draw_indexed, or the plain draw
Draw(d, dc) ==
    IF d.index_buffer
    THEN <<Cmd("set_index_buffer", 0, 0, dc), Cmd("draw_indexed", d.count, d.instance_count, dc)>>
    ELSE <<Cmd("draw", d.count, d.instance_count, dc)>>

\* the body of `for draw_call in draw_calls` for the dc-th draw call
EmitDrawCall(d, dc, current_pipeline_id, current_bind_groups, m) ==
    LET change == current_pipeline_id # Some(d.render_pipeline_handle)
        cache == IF change THEN CacheFill(current_bind_groups) ELSE current_bind_groups
        bgs == SetBindGroups(d.bind_groups, 0, cache, dc)
    IN  [cmds |-> (IF change THEN <<Cmd("set_pipeline", d.render_pipeline_handle, 0, dc)>>
                   ELSE <<>>)
                  \o bgs.cmds
                  \o SetVertexBuffers(d.buffers, dc)
                  \o SetImmediates(d.immediates, m, dc)
                  \o Draw(d, dc),
         current_pipeline_id |-> Some(d.render_pipeline_handle),
         current_bind_groups |-> bgs.cache]

RECURSIVE EmitLoop(_, _, _, _, _)
EmitLoop(dcs, dc, current_pipeline_id, current_bind_groups, m) ==
    IF dc > Len(dcs) THEN <<>>
    ELSE LET e == EmitDrawCall(dcs[dc], dc, current_pipeline_id, current_bind_groups, m)
         IN  e.cmds \o EmitLoop(dcs, dc + 1, e.current_pipeline_id, e.current_bind_groups, m)

\* the emission loop over a list in the order given
EmitInOrder(dcs, m) == EmitLoop(dcs, 1, None, Repeat(None, CacheSize), m)

execute_ordered_draw_calls(dcs, m) ==
    LET sorted == sort_by(dcs) IN [draw_calls |-> sorted, cmds |-> EmitInOrder(sorted, m)]

\* a render that sorts and records the draw calls before it looks at the executor
RenderPass_render_batches_first(p, dcs, m) ==
    LET r == execute_ordered_draw_calls(dcs, m) IN
    IF p.executor
    THEN [pass |-> [p EXCEPT !.executed = @ + 1], draw_calls |-> r.draw_calls, cmds |-> r.cmds]
    ELSE [pass |-> [p EXCEPT !.begun = @ + 1], draw_calls |-> r.draw_calls, cmds |-> r.cmds]

\* RenderPass::render: the executor, when there is one, gets the encoder and the
\* descriptor and nothing else; otherwise the core begins the pass and batches
RenderPass_render(p, dcs, m) ==
    IF p.executor
    THEN [pass |-> [p EXCEPT !.executed = @ + 1], draw_calls |-> dcs, cmds |-> <<>>]
    ELSE LET r == execute_ordered_draw_calls(dcs, m) IN
         [pass |-> [p EXCEPT !.begun = @ + 1], draw_calls |-> r.draw_calls, cmds |-> r.cmds]

----------------------------------------------------------------------------
(* Specification of the stand-alone IdPool *)

IdleHandles == [c \in 1..MaxHandles |->
                   [instance_id |-> 0, instance_counter |-> 0, owners |-> 0, peak |-> 0]]

InitPool ==
    /\ build \in Profiles
    /\ panicked = "none"
    /\ last = NoCall
    /\ pool = IdPool_new
    /\ issued = {}
    /\ coll = CollectionInner_new
    /\ handles = IdleHandles
    /\ imm = ImmediateManager_new
    /\ draw_calls = <<>>
    /\ submitted = <<>>
    /\ cmds = <<>>
    /\ trace = <<>>
    /\ IdleExt

PoolGetNext ==
    /\ panicked = "none"
    /\ pool.available # <<>> \/ pool.current < MaxIds
    /\ LET n == IdPool_get_next(pool) IN
        /\ pool' = n.pool
        /\ issued' = issued \cup {n.id}
        /\ last' = Call("get_next", -1, n.id)
    /\ UNCHANGED <<ext, trace, build, panicked, coll, handles, imm, draw_calls, submitted, cmds>>

PoolFree ==
    /\ panicked = "none"
    /\ \E id \in issued :
        LET f == IdPool_free(pool, id, build) IN
        /\ pool' = f.pool
        /\ panicked' = f.panic
        /\ issued' = issued \ {id}
        /\ last' = Call("free", id, -1)
    /\ UNCHANGED <<ext, trace, build, coll, handles, imm, draw_calls, submitted, cmds>>

NextPool == PoolGetNext \/ PoolFree

SpecPool == InitPool /\ [][NextPool]_vars

\* C4: over any sequence of get_next calls and free calls on issued ids, get_next
\* never returns an id that is issued and not yet freed.
C4_GetNextFresh == [][last'.op = "get_next" => last'.ret \notin issued]_vars

\* get_next has just handed out a recycled id while other ids are still issued
C4_Witness ==
    /\ last.op = "get_next"
    /\ last.ret + 1 < pool.current
    /\ Cardinality(issued) >= 3

\* C19: get_next prefers recycled ids, last in first out: with a non-empty free list
\* it returns the most recently freed id not yet reissued, takes it off the list and
\* leaves the counter unchanged; only with an empty free list does it return the
\* counter's value and increment the counter by one.
C19_GetNextLifo ==
    [][last'.op = "get_next" =>
          /\ IF pool.available # <<>>
             THEN /\ last'.ret = pool.available[Len(pool.available)]
                  /\ pool'.available = SubSeq(pool.available, 1, Len(pool.available) - 1)
                  /\ pool'.current = pool.current
             ELSE /\ last'.ret = pool.current
                  /\ pool'.current = pool.current + 1
                  /\ pool'.available = <<>>
          /\ last.op = "free" => last'.ret = last.arg]_vars

\* get_next has just recycled an id and left two older freed ids on the list
C19_Witness ==
    /\ last.op = "get_next"
    /\ last.ret + 1 < pool.current
    /\ Len(pool.available) = 2
    /\ last.ret \in issued

----------------------------------------------------------------------------
(* Specification of an IdPool whose caller may free an id twice *)

Freed_ids(p) == {p.available[i] : i \in 1..Len(p.available)}

InitMisuse == InitPool

\* no id is on the free list twice
NoDoubleFree == \A id \in Freed_ids(pool) : Count(pool.available, id) = 1

\* free of an id that is on the free list already
PoolFreeAgain ==
    /\ panicked = "none"
    /\ NoDoubleFree
    /\ \E id \in Freed_ids(pool) :
        LET f == IdPool_free(pool, id, build) IN
        /\ pool' = f.pool
        /\ panicked' = f.panic
        /\ last' = Call("free", id, -1)
    /\ UNCHANGED <<ext, trace, build, issued, coll, handles, imm, draw_calls, submitted, cmds>>

\* the model follows the pool up to the caller's first double free
MisuseGetNext == NoDoubleFree /\ PoolGetNext
MisuseFree == NoDoubleFree /\ PoolFree

NextMisuse == MisuseGetNext \/ MisuseFree \/ PoolFreeAgain

SpecMisuse == InitMisuse /\ [][NextMisuse]_vars

\* C20: free(id) for an id that is already free fails fast by assertion and leaves the
\* pool unchanged: the id is not pushed onto the free list a second time.
C20_DoubleFreeFails ==
    [][(last'.op = "free" /\ last'.arg \in Freed_ids(pool)) =>
          /\ panicked' # "none"
          /\ pool' = pool
          /\ Count(pool'.available, last'.arg) = 1]_vars

----------------------------------------------------------------------------
(* Specification of an IdPool created by with_base whose caller may free an id *)
(* the pool never issued                                                       *)

\* the bases the pools of the model are created with
Bases == {0, 2}

InitBase ==
    /\ build \in Profiles
    /\ panicked = "none"
    /\ last = NoCall
    /\ pool \in {IdPool_with_base(base) : base \in Bases}
    /\ issued = {}
    /\ coll = CollectionInner_new
    /\ handles = IdleHandles
    /\ imm = ImmediateManager_new
    /\ draw_calls = <<>>
    /\ submitted = <<>>
    /\ cmds = <<>>
    /\ trace = <<>>
    /\ IdleExt

\* the ids get_next has handed out or free has pushed: every other id was never issued
Known(p) == issued \cup Freed_ids(p)

\* free of an id the pool never issued
PoolFreeUnissued ==
    /\ panicked = "none"
    /\ \E id \in (0..MaxIds) \ Known(pool) :
        LET f == IdPool_free(pool, id, build) IN
        /\ pool' = f.pool
        /\ panicked' = f.panic
        /\ last' = Call("free", id, -1)
    /\ UNCHANGED <<ext, trace, build, issued, coll, handles, imm, draw_calls, submitted, cmds>>

NextBase == PoolGetNext \/ PoolFree \/ PoolFreeUnissued

SpecBase == InitBase /\ [][NextBase]_vars

\* C21: free(id) for an id the pool never issued (at or above the counter, or below
\* the base of a pool created by with_base) fails fast by assertion and leaves the free
\* list unchanged.
C21_UnissuedFreeFails ==
    [][(last'.op = "free" /\ last'.arg \notin Known(pool)) =>
          /\ panicked' # "none"
          /\ pool'.available = pool.available]_vars

----------------------------------------------------------------------------
(* Specification of a Collection driven directly by create and delete *)

InitStorage == InitPool

StorageCreate ==
    /\ panicked = "none"
    /\ coll.id_pool.available # <<>> \/ coll.id_pool.current < MaxIds
    /\ \E val \in Values :
        LET r == CollectionInner_create(coll, val) IN
        /\ coll' = r.coll
        /\ issued' = issued \cup {r.id}
        /\ last' = Call("create", -1, r.id)
    /\ UNCHANGED <<ext, trace, build, panicked, pool, handles, imm, draw_calls, submitted, cmds>>

\* delete of an id that is currently live
StorageDelete ==
    /\ panicked = "none"
    /\ \E id \in issued :
        LET r == CollectionInner_delete(coll, id, build) IN
        /\ coll' = r.coll
        /\ panicked' = r.panic
        /\ issued' = issued \ {id}
        /\ last' = Call("delete", id, -1)
    /\ UNCHANGED <<ext, trace, build, pool, handles, imm, draw_calls, submitted, cmds>>

NextStorage == StorageCreate \/ StorageDelete

SpecStorage == InitStorage /\ [][NextStorage]_vars

StrictlyAscending(data) == \A i, j \in 1..Len(data) : i < j => data[i].id < data[j].id

\* C3: after every create and delete of live ids the entries are strictly ascending
\* by id, lookup succeeds for exactly the live ids, and create returns an id that is
\* not live.
C3_StorageSortedUnique ==
    /\ [](/\ StrictlyAscending(coll.data)
          /\ \A id \in 0..MaxIds : Lookup(coll, id) <=> id \in issued)
    /\ [][last'.op = "create" => last'.ret \notin issued]_vars

\* create has just reused a recycled id smaller than an id already stored
C3_Witness ==
    /\ last.op = "create"
    /\ Len(coll.data) >= 3
    /\ last.ret < coll.data[Len(coll.data)].id

----------------------------------------------------------------------------
(* Specification of a Collection whose caller may delete an id that has no entry *)

InitAbsent == InitPool

\* delete of an id that has no entry in the storage
StorageDeleteAbsent ==
    /\ panicked = "none"
    /\ \E id \in (0..MaxIds) \ Ids(coll) :
        LET r == CollectionInner_delete(coll, id, build) IN
        /\ coll' = r.coll
        /\ panicked' = r.panic
        /\ last' = Call("delete", id, -1)
    /\ UNCHANGED <<ext, trace, build, pool, issued, handles, imm, draw_calls, submitted, cmds>>

NextAbsent == StorageCreate \/ StorageDelete \/ StorageDeleteAbsent

SpecAbsent == InitAbsent /\ [][NextAbsent]_vars

\* C22: delete(id) for an id that has no entry in the storage panics instead of
\* returning normally.
C22_DeleteAbsentPanics ==
    [][(last'.op = "delete" /\ last'.arg \notin Ids(coll)) => panicked' # "none"]_vars

\* a delete of an id that was created and deleted before panicked in the lookup while
\* other entries were live
C22_Witness ==
    /\ last.op = "delete"
    /\ panicked = "Value is not present"
    /\ last.arg \notin Ids(coll)
    /\ last.arg < coll.id_pool.current
    /\ Len(coll.data) >= 2

----------------------------------------------------------------------------
(* shader::Managed<T> with utils::InstanceCounter *)

Cells == 1..MaxHandles

InstanceCounter_new == 1
InstanceCounter_increment(v) == v + 1
\* u32 subtraction: 0 - 1 wraps to 0xFFFFFFFF, read here as the two's complement -1
InstanceCounter_decrement(v) == v - 1

\* the handle a constructor builds around a fresh entry: a new counter and the id
Managed_new(id) ==
    [instance_id |-> id, instance_counter |-> InstanceCounter_new, owners |-> 1, peak |-> 1]

\* a clone that copies the fields and forgets the increment
Managed_clone_noinc(h) ==
    [h EXCEPT !.owners = @ + 1, !.peak = Max(@, h.owners + 1)]

\* Clone: increment the shared counter, copy id, counter and collection
Managed_clone(h) ==
    [h EXCEPT !.instance_counter = InstanceCounter_increment(@),
              !.owners = @ + 1, !.peak = Max(@, h.owners + 1)]

\* a drop that deletes as soon as at most one other handle is left
Managed_drop_early(h, c, profile) ==
    LET v == InstanceCounter_decrement(h.instance_counter)
        h2 == [h EXCEPT !.instance_counter = v, !.owners = @ - 1]
    IN  IF v <= 1
        THEN LET d == CollectionInner_delete(c, h.instance_id, profile)
             IN [handle |-> h2, coll |-> d.coll, panic |-> d.panic]
        ELSE [handle |-> h2, coll |-> c, panic |-> "none"]

\* a drop that deletes the entry whatever the counter reads
Managed_drop_eager(h, c, profile) ==
    LET v == InstanceCounter_decrement(h.instance_counter)
        h2 == [h EXCEPT !.instance_counter = v, !.owners = @ - 1]
        d == CollectionInner_delete(c, h.instance_id, profile)
    IN  [handle |-> h2, coll |-> d.coll, panic |-> d.panic]

\* Drop: decrement the shared counter and delete the entry when it reaches 0
Managed_drop(h, c, profile) ==
    IF h.instance_counter = 0 /\ profile = "dev"
    THEN [handle |-> h, coll |-> c, panic |-> "attempt to subtract with overflow"]
    ELSE LET v == InstanceCounter_decrement(h.instance_counter)
             h2 == [h EXCEPT !.instance_counter = v, !.owners = @ - 1]
         IN  IF v = 0
             THEN LET d == CollectionInner_delete(c, h.instance_id, profile)
                  IN [handle |-> h2, coll |-> d.coll, panic |-> d.panic]
             ELSE [handle |-> h2, coll |-> c, panic |-> "none"]

\* a stored value that owns no handle; any other stored value is the number of the
\* counter cell of the one Managed it owns
PlainVal == 0

\* Collection::delete: `self.inner.borrow_mut().delete(id)`. The RefMut lives to the end
\* of the statement, and `_ = self.data.remove_index(index)` drops the removed entry
\* inside it: a value that owns a Managed runs Managed::drop there, and when that
\* decrement reaches 0 its Collection::delete asks for a second borrow_mut
Collection_delete(hs, c, id, profile) ==
    LET d == CollectionInner_delete(c, id, profile) IN
    IF d.panic # "none" THEN [handles |-> hs, coll |-> d.coll, panic |-> d.panic]
    ELSE LET val == c.data[binary_search_by_key(c.data, id).index + 1].val IN
         IF val = PlainVal THEN [handles |-> hs, coll |-> d.coll, panic |-> "none"]
         ELSE LET v == InstanceCounter_decrement(hs[val].instance_counter)
                  hs2 == [hs EXCEPT ![val].instance_counter = v, ![val].owners = @ - 1]
              IN  [handles |-> hs2, coll |-> d.coll,
                   panic |-> IF v = 0 THEN "already borrowed: BorrowMutError" ELSE "none"]

\* Managed::drop of a handle the application holds, over a Collection whose values
\* may own handles
Managed_drop_outer(hs, c, cell, profile) ==
    LET v == InstanceCounter_decrement(hs[cell].instance_counter)
        hs2 == [hs EXCEPT ![cell].instance_counter = v, ![cell].owners = @ - 1]
    IN  IF v = 0 THEN Collection_delete(hs2, c, hs[cell].instance_id, profile)
        ELSE [handles |-> hs2, coll |-> c, panic |-> "none"]

RECURSIVE SumOwners(_, _)
SumOwners(id, n) ==
    IF n = 0 THEN 0
    ELSE SumOwners(id, n - 1)
         + (IF handles[n].instance_id = id THEN handles[n].owners ELSE 0)

\* number of Managed values that exist for an id
HandlesFor(id) == SumOwners(id, MaxHandles)
TotalHandles == LET RECURSIVE T(_)
                    T(n) == IF n = 0 THEN 0 ELSE T(n - 1) + handles[n].owners
                IN T(MaxHandles)

FreeCells == {c \in Cells : handles[c].owners = 0}
FirstFreeCell == CHOOSE c \in FreeCells : \A d \in FreeCells : c <= d

InitHandle == InitPool

ManagedNew ==
    /\ panicked = "none"
    /\ TotalHandles < MaxHandles
    /\ coll.id_pool.available # <<>> \/ coll.id_pool.current < MaxEntries
    /\ \E val \in Values :
        LET r == CollectionInner_create(coll, val) IN
        /\ coll' = r.coll
        /\ handles' = [handles EXCEPT ![FirstFreeCell] = Managed_new(r.id)]
        /\ last' = Call("new", -1, r.id)
    /\ UNCHANGED <<ext, trace, build, panicked, pool, issued, imm, draw_calls, submitted, cmds>>

ManagedClone ==
    /\ panicked = "none"
    /\ TotalHandles < MaxHandles
    /\ \E c \in Cells :
        /\ handles[c].owners > 0
        /\ handles' = [handles EXCEPT ![c] = Managed_clone(handles[c])]
        /\ last' = Call("clone", handles[c].instance_id, -1)
    /\ UNCHANGED <<ext, trace, build, panicked, pool, issued, coll, imm, draw_calls, submitted, cmds>>

ManagedDrop ==
    /\ panicked = "none"
    /\ \E c \in Cells :
        /\ handles[c].owners > 0
        /\ LET r == Managed_drop(handles[c], coll, build) IN
            /\ handles' = [handles EXCEPT ![c] = r.handle]
            /\ coll' = r.coll
            /\ panicked' = r.panic
        /\ last' = Call("drop", handles[c].instance_id, -1)
    /\ UNCHANGED <<ext, trace, build, pool, issued, imm, draw_calls, submitted, cmds>>

NextHandle == ManagedNew \/ ManagedClone \/ ManagedDrop

SpecHandle == InitHandle /\ [][NextHandle]_vars

\* C1: in every reachable state the shared counter of an id equals the number of
\* handles that exist for it, and the storage holds an entry for an id exactly when
\* at least one handle for that id exists.
C1_CounterMatchesHandles ==
    /\ \A c \in Cells : handles[c].owners > 0 =>
          handles[c].instance_counter = HandlesFor(handles[c].instance_id)
    /\ \A id \in 0..MaxIds : id \in Ids(coll) <=> HandlesFor(id) > 0

\* two live entries right after one of the clones of the first was dropped
C1_Witness ==
    /\ last.op = "drop"
    /\ \E c, d \in Cells :
        /\ handles[c].owners >= 1
        /\ handles[c].peak > handles[c].owners
        /\ last.arg = handles[c].instance_id
        /\ handles[d].owners >= 1
        /\ handles[c].instance_id # handles[d].instance_id

\* C2: a drop that leaves other handles changes nothing in the storage; the drop of
\* the last handle removes the entry and pushes the id on the free list, once; no
\* other step adds an id to the free list.
C2_DeleteExactlyAtZero ==
    [][/\ \A c \in Cells :
            (/\ handles[c].owners > 0
             /\ handles'[c].owners = handles[c].owners - 1) =>
                LET id == handles[c].instance_id IN
                IF handles[c].owners > 1
                THEN coll' = coll /\ id \in Ids(coll')
                ELSE /\ id \in Ids(coll) /\ id \notin Ids(coll')
                     /\ Len(coll'.data) = Len(coll.data) - 1
                     /\ coll'.id_pool.available = Append(coll.id_pool.available, id)
                     /\ Count(coll'.id_pool.available, id) = 1
       /\ \A id \in 0..MaxIds :
            Count(coll'.id_pool.available, id) > Count(coll.id_pool.available, id) =>
                \E c \in Cells : /\ handles[c].instance_id = id
                                 /\ handles[c].owners = 1
                                 /\ handles'[c].owners = 0
      ]_vars

\* a handle that had two clones alive at once has lost its last owner: the entry is gone
\* and the id is on the free list
C2_Witness ==
    /\ last.op = "drop"
    /\ \E c \in Cells :
        /\ handles[c].owners = 0
        /\ handles[c].peak >= 3
        /\ last.arg = handles[c].instance_id
        /\ handles[c].instance_id \notin Ids(coll)
        /\ Count(coll.id_pool.available, handles[c].instance_id) = 1

----------------------------------------------------------------------------
(* Specification of the ImmediateManager *)

\* ids the manager may issue before the model stops adding
MaxImmIds == 4
\* allocation sizes the model asks for
Sizes == {0, 40}

InitImm == InitPool

ImmAdd ==
    /\ panicked = "none"
    /\ imm.id_pool.available # <<>> \/ imm.id_pool.current < MaxImmIds
    /\ \E size \in Sizes :
        LET r == ImmediateManager_add(imm, size, build) IN
        /\ imm' = r.imm
        /\ panicked' = r.panic
        /\ last' = Call("add", size, r.id)
    /\ UNCHANGED <<ext, trace, build, pool, issued, coll, handles, draw_calls, submitted, cmds>>

ImmRemove ==
    /\ panicked = "none"
    /\ \E id \in 0..MaxImmIds :
        LET r == ImmediateManager_remove(imm, id, build) IN
        /\ imm' = r.imm
        /\ panicked' = r.panic
        /\ last' = Call("remove", id, -1)
    /\ UNCHANGED <<ext, trace, build, pool, issued, coll, handles, draw_calls, submitted, cmds>>

NextImm == ImmAdd \/ ImmRemove

SpecImm == InitImm /\ [][NextImm]_vars

Disjoint(r, q) == r.end <= q.start \/ q.end <= r.start

\* C5: after any sequence of add and remove calls, adds of size 0 included, no two
\* live ids have overlapping byte ranges.
C5_NoOverlap ==
    \A i, j \in LiveIds(imm) : i # j => Disjoint(RangeOf(imm, i), RangeOf(imm, j))

RECURSIVE FirstFitFrom(_, _, _)
\* first fit in address order over ranges sorted by start: the first position p (the
\* given one, or the end of a scanned range) whose distance to the next range's start
\* is at least size, else the end of the last range
FirstFitFrom(ranges, p, size) ==
    IF ranges = <<>> THEN p
    ELSE IF Head(ranges).start - p >= size THEN p
    ELSE FirstFitFrom(Tail(ranges), Head(ranges).end, size)

\* the orders that list the live ranges by ascending start (ranges with equal starts
\* may come in either order)
AscendingOrders(m) ==
    LET rs == Flatten(m.entries)
        n == Len(rs)
    IN  {[i \in 1..n |-> rs[f[i]]] :
            f \in {g \in [1..n -> 1..n] :
                      /\ \A i, j \in 1..n : i # j => g[i] # g[j]
                      /\ \A i \in 1..(n - 1) : rs[g[i]].start <= rs[g[i + 1]].start}}

\* C11: add(size) is first-fit in address order: an add that returns gives its id the
\* range [p, p + size) where, scanning the live ranges by ascending start, p is the
\* first position (0, or the end of a scanned live range) whose distance to the next
\* live range's start is at least size, or the end of the last live range when no gap
\* fits.
C11_FirstFit ==
    [][(last'.op = "add" /\ panicked' = "none") =>
          \E order \in AscendingOrders(imm) :
              LET p == FirstFitFrom(order, 0, last'.arg) IN
              RangeOf(imm', last'.ret) = Range(p, p + last'.arg)]_vars

\* C14: add(size) completes without failing for every size >= 0 in every reachable
\* state, states with live zero-length allocations included, and the id it returns
\* resolves to a range of exactly size bytes.
C14_AddNeverFails ==
    last.op = "add" =>
        /\ panicked = "none"
        /\ Slot(imm, last.ret) # None
        /\ RangeOf(imm, last.ret).end - RangeOf(imm, last.ret).start = last.arg

\* end of the used region: the largest end of a live range, 0 when nothing is live
UsedEnd(m) ==
    LET ends == {RangeOf(m, id).end : id \in LiveIds(m)} \cup {0}
    IN  CHOOSE e \in ends : \A f \in ends : f <= e

\* the step is an add that returned and grew the buffer
Grows == last'.op = "add" /\ panicked' = "none" /\ Len(imm'.bytes) # Len(imm.bytes)

\* C15 as stated: when the buffer grows its new length is
\* max(2 x current length, 2 x (end of the used region + size), 64) and the allocation
\* starts at the end of the used region.
C15_GrowthDoublesEnd ==
    [][Grows =>
          /\ Len(imm'.bytes) =
                 Max(Max(2 * Len(imm.bytes), 2 * (UsedEnd(imm) + last'.arg)), 64)
          /\ RangeOf(imm', last'.ret).start = UsedEnd(imm)]_vars

\* C15: when the buffer grows its new length is
\* max(2 x current length, end of the used region + 2 x size, 64), the allocation
\* starts at the end of the used region and ends within the new buffer.
C15_GrowthLength ==
    [][Grows =>
          /\ Len(imm'.bytes) =
                 Max(Max(2 * Len(imm.bytes), UsedEnd(imm) + 2 * last'.arg), 64)
          /\ RangeOf(imm', last'.ret) = Range(UsedEnd(imm), UsedEnd(imm) + last'.arg)
          /\ UsedEnd(imm) + last'.arg <= Len(imm'.bytes)]_vars

\* a third range of 40 bytes was placed behind two others and the 80-byte buffer grew
\* to 160 bytes, not to 240
C15_Witness ==
    /\ last = Call("add", 40, 2)
    /\ RangeOf(imm, 2) = Range(80, 120)
    /\ Len(imm.bytes) = 160
    /\ imm.id_pool = [current |-> 3, available |-> <<>>]

\* C17: remove(id) on a live id clears only that id's slot and returns the id to the
\* pool: the buffer's length and contents, the slot table's length and the range of
\* every other id are unchanged.
C17_RemoveFrame ==
    [][(last'.op = "remove" /\ Slot(imm, last'.arg) # None) =>
          /\ panicked' = "none"
          /\ Slot(imm', last'.arg) = None
          /\ Len(imm'.entries) = Len(imm.entries)
          /\ \A id \in 0..(Len(imm.entries) - 1) :
                id # last'.arg => Slot(imm', id) = Slot(imm, id)
          /\ imm'.bytes = imm.bytes
          /\ imm'.id_pool =
                 [imm.id_pool EXCEPT !.available = Append(@, last'.arg)]]_vars

\* an id was removed while two others were live, and the buffer kept its 160 bytes
C17_Witness ==
    /\ last.op = "remove"
    /\ Slot(imm, last.arg) = None
    /\ imm.id_pool.available # <<>>
    /\ imm.id_pool.available[Len(imm.id_pool.available)] = last.arg
    /\ Cardinality(LiveIds(imm)) = 2
    /\ Len(imm.bytes) = 160

----------------------------------------------------------------------------
(* Specification of an ImmediateManager whose recent calls are recorded *)

\* calls the model makes on the traced manager
MaxFitCalls == 6
\* allocation sizes the model asks the traced manager for
FitSizes == {0, 16, 24}

\* a recorded call: for an add the range it returned, for a remove the range it cleared
Traced(op, arg, ret, range) == [op |-> op, arg |-> arg, ret |-> ret, range |-> range]

InitFit == InitPool

FitAdd ==
    /\ panicked = "none"
    /\ Len(trace) < MaxFitCalls
    /\ \E size \in FitSizes :
        LET r == ImmediateManager_add(imm, size, build) IN
        /\ imm' = r.imm
        /\ panicked' = r.panic
        /\ last' = Call("add", size, r.id)
        /\ trace' = Append(trace, Traced("add", size, r.id, Slot(r.imm, r.id)))
    /\ UNCHANGED <<ext, build, pool, issued, coll, handles, draw_calls, submitted, cmds>>

FitRemove ==
    /\ panicked = "none"
    /\ Len(trace) < MaxFitCalls
    /\ \E id \in LiveIds(imm) :
        LET r == ImmediateManager_remove(imm, id, build) IN
        /\ imm' = r.imm
        /\ panicked' = r.panic
        /\ last' = Call("remove", id, -1)
        /\ trace' = Append(trace, Traced("remove", id, -1, Slot(imm, id)))
    /\ UNCHANGED <<ext, build, pool, issued, coll, handles, draw_calls, submitted, cmds>>

NextFit == FitAdd \/ FitRemove

SpecFit == InitFit /\ [][NextFit]_vars

\* the last three calls, oldest first
Recent == SubSeq(trace, Len(trace) - 2, Len(trace))

\* the last three calls were add(n), remove of the id it returned, add(n)
AddRemoveAdd ==
    /\ Len(trace) >= 3
    /\ Recent[1].op = "add" /\ Recent[1].range # None
    /\ Recent[2].op = "remove" /\ Recent[2].arg = Recent[1].ret
    /\ Recent[3].op = "add" /\ Recent[3].arg = Recent[1].arg

\* C12: add(n), remove of the returned id, add(n) again: the second add returns the
\* same id and the same byte range as the first; when nothing else is live (as from an
\* empty manager, e.g. with n = 16) both ranges are [0, n).
C12_AddRemoveAdd ==
    AddRemoveAdd =>
        /\ Recent[3].ret = Recent[1].ret
        /\ Recent[3].range = Recent[1].range
        /\ LiveIds(imm) = {Recent[3].ret} =>
               Recent[3].range = Some(Range(0, Recent[1].arg))

\* the cycle ran with n = 16 behind two live ranges, the second of them empty
C12_Witness ==
    /\ AddRemoveAdd
    /\ Recent[1].arg = 16
    /\ Recent[3].range = Some(Range(24, 40))
    /\ Cardinality(LiveIds(imm)) = 3
    /\ \E id \in LiveIds(imm) : RangeOf(imm, id) = Range(0, 0)

Size(r) == r.end - r.start

\* the last three calls removed two allocations occupying adjacent byte ranges and then
\* added a range larger than either of them but not larger than both together
TwoFreedThenAdd ==
    /\ Len(trace) >= 3
    /\ Recent[1].op = "remove" /\ Recent[2].op = "remove"
    /\ Recent[3].op = "add" /\ Recent[3].range # None
    /\ LET x == Recent[1].range[1]
           y == Recent[2].range[1]
       IN  /\ x.end = y.start \/ y.end = x.start
           /\ Recent[3].arg > Size(x) /\ Recent[3].arg > Size(y)
           /\ Recent[3].arg <= Size(x) + Size(y)

\* the combined region of the two freed ranges
Freed ==
    LET x == Recent[1].range[1]
        y == Recent[2].range[1]
    IN  IF x.end = y.start THEN Range(x.start, y.end) ELSE Range(y.start, x.end)

\* C18 as stated: free gaps are not merged, so after two adjacent allocations are both
\* removed an add larger than either but not larger than both together is not placed
\* inside the combined freed region.
C18_NoMerging ==
    TwoFreedThenAdd =>
        ~(/\ Freed.start <= Recent[3].range[1].start
          /\ Recent[3].range[1].end <= Freed.end)

\* C18: gaps are measured between live ranges, so two adjacent freed ranges form one
\* gap: when no other live range reaches into the combined freed region, such an add
\* is placed at or before the region's start, never behind it.
C18_FreedRangesFormOneGap ==
    (/\ TwoFreedThenAdd
     /\ \A id \in LiveIds(imm) \ {Recent[3].ret} : Disjoint(RangeOf(imm, id), Freed)) =>
        Recent[3].range[1].start <= Freed.start

\* [0,16) and [16,32) were freed in front of the live [32,48) and add(24) was placed at
\* [0,24), inside the combined freed region
C18_Witness ==
    /\ TwoFreedThenAdd
    /\ Freed = Range(0, 32)
    /\ Recent[3].range = Some(Range(0, 24))
    /\ \E id \in LiveIds(imm) : RangeOf(imm, id) = Range(32, 48)

----------------------------------------------------------------------------
(* Specification of an ImmediateManager asked for ranges of three sizes *)

\* ids the manager may issue before the model stops adding
MaxWideIds == 3
\* allocation sizes the model asks for: none, less and more than the first buffer
WideSizes == {0, 40, 100}

InitWide == InitPool

\* `issued` holds the ids add has returned and remove has not been given since
WideAdd ==
    /\ panicked = "none"
    /\ imm.id_pool.available # <<>> \/ imm.id_pool.current < MaxWideIds
    /\ \E size \in WideSizes :
        LET r == ImmediateManager_add(imm, size, build) IN
        /\ imm' = r.imm
        /\ panicked' = r.panic
        /\ issued' = IF r.panic = "none" THEN issued \cup {r.id} ELSE issued
        /\ last' = Call("add", size, r.id)
    /\ UNCHANGED <<ext, trace, build, pool, coll, handles, draw_calls, submitted, cmds>>

WideRemove ==
    /\ panicked = "none"
    /\ \E id \in 0..MaxWideIds :
        LET r == ImmediateManager_remove(imm, id, build) IN
        /\ imm' = r.imm
        /\ panicked' = r.panic
        /\ issued' = issued \ {id}
        /\ last' = Call("remove", id, -1)
    /\ UNCHANGED <<ext, trace, build, pool, coll, handles, draw_calls, submitted, cmds>>

NextWide == WideAdd \/ WideRemove

SpecWide == InitWide /\ [][NextWide]_vars

\* C13: after every add every live range lies inside the backing buffer (its end is at
\* most the buffer's length); add(100) on an empty manager leaves a buffer of at
\* least 100 bytes that contains the returned range.
C13_RangesInsideBuffer ==
    (last.op = "add" /\ panicked = "none") =>
        /\ \A id \in LiveIds(imm) : RangeOf(imm, id).end <= Len(imm.bytes)
        /\ (last.arg = 100 /\ LiveIds(imm) = {last.ret}) =>
              /\ Len(imm.bytes) >= 100
              /\ RangeOf(imm, last.ret) = Range(0, 100)

\* C16: get and get_mut never fail; they return None for every id that was never
\* issued or that was removed and not reissued, and the slice of the id's range for
\* every live id.
C16_GetTotal ==
    \A id \in 0..MaxWideIds :
        LET g == ImmediateManager_get(imm, id)
            gm == ImmediateManager_get_mut(imm, id)
        IN  /\ g.panic = "none" /\ gm.panic = "none"
            /\ id \notin issued => g.slice = None /\ gm.slice = None
            /\ id \in issued =>
                  /\ g.slice # None /\ gm.slice = g.slice
                  /\ Len(g.slice[1]) = RangeOf(imm, id).end - RangeOf(imm, id).start

----------------------------------------------------------------------------
(* Specification of a render pass executed by the default ordered batching *)

\* draw calls a render pass may hold
MaxCalls == 3

PipelineIds == {1, 2}
BindGroupLists == {<<>>, <<1>>, <<2>>, <<1, 1>>, <<1, 2>>, <<2, 1>>, <<1, 1, 1, 1>>}

DrawCall(pipeline, bind_groups, payload) ==
    [render_pipeline_handle |-> pipeline, bind_groups |-> bind_groups,
     index_buffer |-> payload.index_buffer, count |-> payload.count,
     instance_count |-> payload.instance_count, buffers |-> payload.buffers,
     immediates |-> payload.immediates]

\* geometry, instance count and immediates of a draw call
PlainPayload ==
    [index_buffer |-> FALSE, count |-> 3, instance_count |-> 1, buffers |-> 1,
     immediates |-> None]
Payloads ==
    {PlainPayload,
     [index_buffer |-> TRUE, count |-> 6, instance_count |-> 2, buffers |-> 2,
      immediates |-> Some(0)],
     [index_buffer |-> FALSE, count |-> 4, instance_count |-> 1, buffers |-> 0,
      immediates |-> Some(1)]}

\* draw calls that differ in pipeline and bind groups, and draw calls that differ in
\* geometry and immediates
StateDrawCalls == {DrawCall(p, b, PlainPayload) : p \in PipelineIds, b \in BindGroupLists}
PayloadDrawCalls ==
    {DrawCall(p, <<1>>, g) : p \in PipelineIds, g \in Payloads}

ListsOver(S) == UNION {[1..n -> S] : n \in 0..MaxCalls}

\* the manager a pass renders with: id 0 is live, id 1 was removed
PassImmediates ==
    LET a == ImmediateManager_add(ImmediateManager_new, 4, "dev").imm
        b == ImmediateManager_add(a, 4, "dev").imm
    IN  ImmediateManager_remove(b, 1, "dev").imm

\* no operation of a render depends on the profile
InitBatch ==
    /\ build = "dev"
    /\ panicked = "none"
    /\ last = NoCall
    /\ pool = IdPool_new
    /\ issued = {}
    /\ coll = CollectionInner_new
    /\ handles = IdleHandles
    /\ imm = PassImmediates
    /\ draw_calls \in ListsOver(StateDrawCalls) \cup ListsOver(PayloadDrawCalls)
    /\ submitted = draw_calls
    /\ cmds = <<>>
    /\ trace = <<>>
    /\ IdleExt

\* RenderPass::render without an executor
Render ==
    /\ panicked = "none"
    /\ LET r == execute_ordered_draw_calls(draw_calls, imm) IN
        /\ draw_calls' = r.draw_calls
        /\ cmds' = r.cmds
    /\ last' = Call("render", -1, -1)
    /\ UNCHANGED <<ext, trace, build, panicked, pool, issued, coll, handles, imm, submitted>>

NextBatch == Render

SpecBatch == InitBatch /\ [][NextBatch]_vars

Rendered == last.op = "render"

IsDraw(c) == c.op \in {"draw", "draw_indexed"}
Positions(op) == {i \in 1..Len(cmds) : cmds[i].op = op}
LastOf(S) == CHOOSE i \in S : \A j \in S : j <= i

\* C6: when a draw command is emitted, the most recent pipeline bind is the draw
\* call's pipeline, and for every slot the draw call uses, the most recent bind of that
\* slot since that pipeline bind is the draw call's bind group.
C6_DrawSeesItsState ==
    Rendered =>
        \A i \in 1..Len(cmds) : IsDraw(cmds[i]) =>
            LET d == draw_calls[cmds[i].dc]
                pipes == {j \in Positions("set_pipeline") : j < i}
            IN  /\ pipes # {}
                /\ cmds[LastOf(pipes)].a = d.render_pipeline_handle
                /\ \A slot \in 0..(Len(d.bind_groups) - 1) :
                    LET binds == {j \in Positions("set_bind_group") :
                                    j > LastOf(pipes) /\ j < i /\ cmds[j].a = slot}
                    IN  binds # {} /\ cmds[LastOf(binds)].b = d.bind_groups[slot + 1]

\* two neighbours in emission order use different pipelines and the same bind group
\* at slot 0
C6_Witness ==
    /\ Rendered
    /\ draw_calls # submitted
    /\ \E k \in 1..(Len(draw_calls) - 1) :
        /\ draw_calls[k].render_pipeline_handle # draw_calls[k + 1].render_pipeline_handle
        /\ draw_calls[k].bind_groups # <<>>
        /\ draw_calls[k + 1].bind_groups # <<>>
        /\ draw_calls[k].bind_groups[1] = draw_calls[k + 1].bind_groups[1]

PermutationsOf(dcs) ==
    {[i \in 1..Len(dcs) |-> dcs[f[i]]] : f \in Permutations(1..Len(dcs))}

CountOp(cs, op) == Cardinality({i \in 1..Len(cs) : cs[i].op = op})
PipelineBinds(cs) == CountOp(cs, "set_pipeline")
Binds(cs) == CountOp(cs, "set_pipeline") + CountOp(cs, "set_bind_group")

DrawShape(d) == <<IF d.index_buffer THEN "draw_indexed" ELSE "draw", d.count, d.instance_count>>
CmdShape(c) == <<c.op, c.a, c.b>>

\* C8: batching emits exactly one draw command per draw call: draw_indexed exactly
\* for the draw calls that carry an index buffer, draw otherwise, with the draw call's
\* element count and instance count.
C8_OneDrawPerCall ==
    Rendered =>
        /\ Cardinality({i \in 1..Len(cmds) : IsDraw(cmds[i])}) = Len(submitted)
        /\ \A k \in 1..Len(submitted) :
            Cardinality({i \in 1..Len(cmds) :
                            IsDraw(cmds[i]) /\ CmdShape(cmds[i]) = DrawShape(submitted[k])})
            = Cardinality({j \in 1..Len(submitted) :
                            DrawShape(submitted[j]) = DrawShape(submitted[k])})

\* an indexed and a non-indexed draw call were reordered by the sort
C8_Witness ==
    /\ Rendered
    /\ draw_calls # submitted
    /\ \E j, k \in 1..Len(submitted) : submitted[j].index_buffer /\ ~submitted[k].index_buffer
    /\ CountOp(cmds, "draw_indexed") >= 1
    /\ CountOp(cmds, "draw") >= 1

\* C9: the number of pipeline binds equals the number of distinct pipelines in the
\* list, whatever the input order.
C9_PipelineBindPerPipeline ==
    Rendered =>
        PipelineBinds(cmds)
        = Cardinality({submitted[k].render_pipeline_handle : k \in 1..Len(submitted)})

\* pipelines submitted as A, B, A give two pipeline binds
C9_Witness ==
    /\ Rendered
    /\ Len(submitted) = 3
    /\ submitted[1].render_pipeline_handle = submitted[3].render_pipeline_handle
    /\ submitted[1].render_pipeline_handle # submitted[2].render_pipeline_handle
    /\ PipelineBinds(cmds) = 2

SameStateAtSlot0(d, e) ==
    /\ d.render_pipeline_handle = e.render_pipeline_handle
    /\ d.bind_groups # <<>> /\ e.bind_groups # <<>>
    /\ d.bind_groups[1] = e.bind_groups[1]

Slot0Binds(cs) == {i \in 1..Len(cs) : cs[i].op = "set_bind_group" /\ cs[i].a = 0}

\* C10: of two draw calls consecutive in emission order with the same pipeline and
\* the same bind group at slot 0, the later one emits no bind for slot 0; a list of
\* exactly those two emits one bind for slot 0 in total.
C10_Slot0BoundOnce ==
    Rendered =>
        /\ \A k \in 1..(Len(draw_calls) - 1) :
            SameStateAtSlot0(draw_calls[k], draw_calls[k + 1]) =>
                \A i \in Slot0Binds(cmds) : cmds[i].dc # k + 1
        /\ (Len(draw_calls) = 2 /\ SameStateAtSlot0(draw_calls[1], draw_calls[2]))
                => Cardinality(Slot0Binds(cmds)) = 1

\* a list of exactly two draw calls with the same pipeline and slot-0 bind group
C10_Witness ==
    /\ Rendered
    /\ Len(draw_calls) = 2
    /\ SameStateAtSlot0(draw_calls[1], draw_calls[2])
    /\ Cardinality(Slot0Binds(cmds)) = 1

\* the draw call's immediate-data id does not resolve in the manager
Unresolved(d) ==
    d.immediates # None /\ ImmediateManager_get(imm, d.immediates[1]).slice = None

\* the list with the immediates of the unresolved draw calls taken away
WithoutUnresolved(dcs) ==
    [k \in 1..Len(dcs) |-> IF Unresolved(dcs[k]) THEN [dcs[k] EXCEPT !.immediates = None]
                           ELSE dcs[k]]

\* C23: a draw call whose immediate-data id does not resolve emits no set-immediates
\* command and does not abort batching: its own draw command and every command of
\* the later draw calls are emitted, as if the draw call carried no immediates.
C23_UnresolvedSkipped ==
    Rendered =>
        /\ \A k \in 1..Len(draw_calls) : Unresolved(draw_calls[k]) =>
              /\ \A i \in Positions("set_immediates") : cmds[i].dc # k
              /\ Cardinality({i \in 1..Len(cmds) : IsDraw(cmds[i]) /\ cmds[i].dc = k}) = 1
              /\ \A j \in (k + 1)..Len(draw_calls) :
                    \E i \in 1..Len(cmds) : IsDraw(cmds[i]) /\ cmds[i].dc = j
        /\ cmds = EmitInOrder(WithoutUnresolved(draw_calls), imm)

\* a draw call with an unresolved id was emitted before one whose id resolves
C23_Witness ==
    /\ Rendered
    /\ \E k \in 1..(Len(draw_calls) - 1) :
        /\ Unresolved(draw_calls[k])
        /\ draw_calls[k + 1].immediates # None
        /\ ~Unresolved(draw_calls[k + 1])
        /\ \E i \in Positions("set_immediates") : cmds[i].dc = k + 1

\* the composite sort key: the pipeline identity, then the bind-group identities
Key(d) == <<d.render_pipeline_handle>> \o d.bind_groups

\* lexicographic order on keys, a proper prefix first
KeyLess(s, t) ==
    \E i \in 1..(Len(t)) :
        /\ i <= Len(s) + 1
        /\ \A j \in 1..(i - 1) : s[j] = t[j]
        /\ i = Len(s) + 1 \/ s[i] < t[i]

\* C24: batching leaves the list as the stable sort of the input by the composite
\* key: a permutation of the input, non-decreasing in the key, in which draw calls
\* with equal keys keep their relative input order.
C24_StableSortByKey ==
    Rendered =>
        \E f \in Permutations(1..Len(submitted)) :
            /\ Len(draw_calls) = Len(submitted)
            /\ \A i \in 1..Len(submitted) : draw_calls[i] = submitted[f[i]]
            /\ \A i, j \in 1..Len(submitted) : i < j =>
                  /\ ~KeyLess(Key(draw_calls[j]), Key(draw_calls[i]))
                  /\ Key(draw_calls[i]) = Key(draw_calls[j]) => f[i] < f[j]

\* two draw calls with one key and different geometry were submitted in front of a
\* draw call with a smaller key
C24_Witness ==
    /\ Rendered
    /\ Len(submitted) = 3
    /\ Key(submitted[1]) = Key(submitted[2])
    /\ submitted[1] # submitted[2]
    /\ KeyLess(Key(submitted[3]), Key(submitted[1]))
    /\ draw_calls = <<submitted[3], submitted[1], submitted[2]>>

\* the k-th draw call in emission order is the first or follows another pipeline
PipelineChanges(k) ==
    k = 1 \/ draw_calls[k - 1].render_pipeline_handle # draw_calls[k].render_pipeline_handle

\* C25: whenever a draw call's pipeline differs from the previously bound one, a
\* pipeline bind is emitted before any of that draw call's bind-group binds, and every
\* bind group the draw call uses is bound again after it, also when the same
\* bind group was bound at the same slot under the previous pipeline.
C25_PipelineChangeRebinds ==
    Rendered =>
        \A k \in 1..Len(draw_calls) : PipelineChanges(k) =>
            \E i \in Positions("set_pipeline") :
                /\ cmds[i].dc = k
                /\ cmds[i].a = draw_calls[k].render_pipeline_handle
                /\ \A j \in Positions("set_bind_group") : cmds[j].dc = k => j > i
                /\ \A slot \in 0..(Len(draw_calls[k].bind_groups) - 1) :
                      \E j \in Positions("set_bind_group") :
                          /\ j > i /\ cmds[j].dc = k /\ cmds[j].a = slot
                          /\ cmds[j].b = draw_calls[k].bind_groups[slot + 1]

\* two neighbours in emission order use different pipelines and the same two bind
\* groups
C25_Witness ==
    /\ Rendered
    /\ \E k \in 2..Len(draw_calls) :
        /\ PipelineChanges(k)
        /\ Len(draw_calls[k].bind_groups) = 2
        /\ draw_calls[k].bind_groups = draw_calls[k - 1].bind_groups
        /\ Cardinality({j \in Positions("set_bind_group") : cmds[j].dc = k}) = 2

\* the draw call that bound the pipeline the k-th draw call is emitted under
RunStart(k) == LastOf({j \in 1..k : PipelineChanges(j)})

\* the earlier draw calls under the current pipeline that use the slot
PriorUsers(k, slot) ==
    {j \in RunStart(k)..(k - 1) : Len(draw_calls[j].bind_groups) > slot}

\* a bind group was bound at the slot under the current pipeline and the one last
\* bound there is the k-th draw call's
Unchanged(k, slot) ==
    /\ PriorUsers(k, slot) # {}
    /\ draw_calls[LastOf(PriorUsers(k, slot))].bind_groups[slot + 1]
          = draw_calls[k].bind_groups[slot + 1]

Bound(k, slot) ==
    \E i \in Positions("set_bind_group") : cmds[i].dc = k /\ cmds[i].a = slot

\* C26 as stated: for every slot a draw call uses, slots at or beyond the cache
\* capacity included, a bind is emitted only if nothing was bound at the slot under the
\* current pipeline or the bind group last bound there differs: an unchanged slot is
\* never bound again.
C26_UnchangedNeverRebound ==
    Rendered =>
        \A k \in 1..Len(draw_calls) :
            \A slot \in 0..(Len(draw_calls[k].bind_groups) - 1) :
                Bound(k, slot) => ~Unchanged(k, slot)

\* C26: for every slot below the cache capacity a bind is emitted exactly if nothing
\* was bound at the slot under the current pipeline or the bind group last bound there
\* differs; a slot at or beyond the capacity is bound by every draw call that uses it.
C26_CachedSlotsNeverRebound ==
    Rendered =>
        \A k \in 1..Len(draw_calls) :
            \A slot \in 0..(Len(draw_calls[k].bind_groups) - 1) :
                IF slot < CacheSize
                THEN Bound(k, slot) <=> ~Unchanged(k, slot)
                ELSE Bound(k, slot)

\* a draw call found slots 0 to 2 cached and bound slot 3 again, unchanged
C26_Witness ==
    /\ Rendered
    /\ \E k \in 2..Len(draw_calls) :
        /\ Len(draw_calls[k].bind_groups) = 4
        /\ \A slot \in 0..3 : Unchanged(k, slot)
        /\ \A slot \in 0..2 : ~Bound(k, slot)
        /\ Bound(k, 3)

\* the position of the k-th draw command, and the commands that end with it
NthDraw(k) ==
    CHOOSE i \in 1..Len(cmds) :
        IsDraw(cmds[i]) /\ Cardinality({j \in 1..i : IsDraw(cmds[j])}) = k
Segment(k) == ((IF k = 1 THEN 0 ELSE NthDraw(k - 1)) + 1)..NthDraw(k)

\* the place of a command in the body of the loop
Rank(c) ==
    CASE c.op = "set_pipeline" -> 0
      [] c.op = "set_bind_group" -> 1
      [] c.op = "set_vertex_buffer" -> 2
      [] c.op = "set_immediates" -> 3
      [] c.op = "set_index_buffer" -> 4
      [] OTHER -> 5

\* C27: the draw commands appear in the sorted order of the draw calls, and the
\* commands of each draw call are contiguous and ordered: pipeline bind (if any),
\* bind-group binds by ascending slot, one vertex-buffer bind for every vertex buffer
\* of the draw call by ascending slot, set-immediates (if any), index-buffer bind (if
\* indexed), then the draw command.
C27_CommandOrder ==
    Rendered =>
        /\ Cardinality({i \in 1..Len(cmds) : IsDraw(cmds[i])}) = Len(draw_calls)
        /\ cmds # <<>> => IsDraw(cmds[Len(cmds)])
        /\ \A k \in 1..Len(draw_calls) :
            LET d == draw_calls[k]
                seg == Segment(k)
            IN  /\ CmdShape(cmds[NthDraw(k)]) = DrawShape(d)
                /\ \A i \in seg : cmds[i].dc = k
                /\ \A i \in seg \ {NthDraw(k)} :
                    \/ Rank(cmds[i]) < Rank(cmds[i + 1])
                    \/ /\ Rank(cmds[i]) = Rank(cmds[i + 1])
                       /\ Rank(cmds[i]) \in {1, 2}
                       /\ cmds[i].a < cmds[i + 1].a
                /\ {cmds[i].a : i \in {j \in seg : cmds[j].op = "set_vertex_buffer"}}
                      = 0..(d.buffers - 1)
                /\ (\E i \in seg : cmds[i].op = "set_index_buffer") <=> d.index_buffer

\* a reordered list holds a draw call that emitted every kind of command: a pipeline
\* bind, a bind group, two vertex buffers, immediates, an index buffer and the draw
C27_Witness ==
    /\ Rendered
    /\ draw_calls # submitted
    /\ \E k \in 1..Len(draw_calls) :
        /\ {Rank(cmds[i]) : i \in Segment(k)} = 0..5
        /\ draw_calls[k].buffers = 2
        /\ Cardinality(Segment(k)) = 7

----------------------------------------------------------------------------
(* Specification of the slot table and id pool of the ImmediateManager *)

\* ids the manager may issue before the model stops adding
MaxSlotIds == 4
\* allocation sizes the model asks for
SlotSizes == {0, 8}

InitSlots == InitPool

\* `issued` holds the ids add has returned and remove has not been given since
SlotsAdd ==
    /\ panicked = "none"
    /\ imm.id_pool.available # <<>> \/ imm.id_pool.current < MaxSlotIds
    /\ \E size \in SlotSizes :
        LET r == ImmediateManager_add(imm, size, build) IN
        /\ imm' = r.imm
        /\ panicked' = r.panic
        /\ issued' = IF r.panic = "none" THEN issued \cup {r.id} ELSE issued
        /\ last' = Call("add", size, r.id)
    /\ UNCHANGED <<ext, trace, build, pool, coll, handles, draw_calls, submitted, cmds>>

\* remove of any id, live or not
SlotsRemove ==
    /\ panicked = "none"
    /\ \E id \in 0..MaxSlotIds :
        LET r == ImmediateManager_remove(imm, id, build) IN
        /\ imm' = r.imm
        /\ panicked' = r.panic
        /\ issued' = issued \ {id}
        /\ last' = Call("remove", id, -1)
    /\ UNCHANGED <<ext, trace, build, pool, coll, handles, draw_calls, submitted, cmds>>

NextSlots == SlotsAdd \/ SlotsRemove

SpecSlots == InitSlots /\ [][NextSlots]_vars

\* C28: in every reachable state of the manager, for each id below the pool's
\* counter the slot is None exactly when the id is on the free list, where it stands
\* once, and Some exactly when the id is live; every slot at or above the counter is
\* None.
C28_SlotsMatchPool ==
    LET current == imm.id_pool.current
        available == imm.id_pool.available
    IN  /\ \A id \in 0..(current - 1) :
            /\ Slot(imm, id) = None <=> Count(available, id) = 1
            /\ Slot(imm, id) # None <=> id \in issued
            /\ Count(available, id) <= 1
        /\ \A id \in current..(Len(imm.entries) - 1) : Slot(imm, id) = None
        /\ \A i \in 1..Len(available) : available[i] < current
        /\ issued \subseteq 0..(current - 1)

\* a remove left live ids, two freed ids and empty slots above the counter
C28_Witness ==
    /\ last.op = "remove"
    /\ panicked = "none"
    /\ issued # {}
    /\ Len(imm.id_pool.available) >= 2
    /\ Len(imm.entries) > imm.id_pool.current

\* a step that clones a handle, or drops a handle that is not the last of its id
CloneOrInnerDrop ==
    \/ last'.op = "clone"
    \/ /\ last'.op = "drop"
       /\ \E c \in Cells : /\ handles[c].owners > 1
                            /\ handles'[c].owners = handles[c].owners - 1

\* C29: a clone, and every drop that is not the last for its id, change only the
\* shared counter of that id: the storage entries and the id pool, counter and free
\* list, are unchanged, and so are the handles of every other id.
C29_CloneDropFrame ==
    [][CloneOrInnerDrop =>
          /\ coll'.data = coll.data
          /\ coll'.id_pool.current = coll.id_pool.current
          /\ coll'.id_pool.available = coll.id_pool.available
          /\ panicked' = "none"
          /\ \E c \in Cells :
              /\ handles'[c].instance_id = handles[c].instance_id
              /\ handles'[c].instance_counter # handles[c].instance_counter
              /\ \A d \in Cells \ {c} : handles'[d] = handles[d]
      ]_vars

\* a clone taken while the storage holds an entry and the free list holds an id
C29_Witness ==
    /\ last.op = "clone"
    /\ coll.data # <<>>
    /\ coll.id_pool.available # <<>>
    /\ \E c \in Cells : handles[c].owners >= 2 /\ handles[c].instance_id = last.arg

\* C30: batching is idempotent on the list: a second run on the list the first run
\* left, with the resources unchanged, leaves the order of the list unchanged and
\* emits the same command sequence.
C30_SecondRunSame ==
    Rendered =>
        LET again == execute_ordered_draw_calls(draw_calls, imm)
        IN  /\ again.draw_calls = draw_calls
            /\ again.cmds = cmds

\* the first run reordered a list that holds two different draw calls of equal key
C30_Witness ==
    /\ Rendered
    /\ draw_calls # submitted
    /\ cmds # <<>>
    /\ \E k \in 1..(Len(draw_calls) - 1) :
        /\ Compare(draw_calls[k], draw_calls[k + 1]) = "Equal"
        /\ draw_calls[k] # draw_calls[k + 1]

----------------------------------------------------------------------------
(* Specification of a RenderPass with or without a custom executor *)

\* draw calls a pass of this specification may hold, and renders it may run
MaxPassCalls == 2
MaxRenders == 2

PassLists == UNION {[1..n -> StateDrawCalls \cup PayloadDrawCalls] : n \in 0..MaxPassCalls}

InitPass ==
    /\ build = "dev"
    /\ panicked = "none"
    /\ last = NoCall
    /\ pool = IdPool_new
    /\ issued = {}
    /\ coll = CollectionInner_new
    /\ handles = IdleHandles
    /\ imm = PassImmediates
    /\ draw_calls \in PassLists
    /\ submitted = draw_calls
    /\ cmds = <<>>
    /\ trace = <<>>
    /\ pass \in {[NoPass EXCEPT !.executor = e] : e \in BOOLEAN}
    /\ pool_base = 0
    /\ ssbo = NoSsbo
    /\ transform = NoTransform
    /\ written = None

\* RenderPass::render; `cmds` holds what the core recorded in this render
PassRender ==
    /\ panicked = "none"
    /\ pass.executed + pass.begun < MaxRenders
    /\ LET r == RenderPass_render(pass, draw_calls, imm) IN
        /\ pass' = r.pass
        /\ draw_calls' = r.draw_calls
        /\ cmds' = r.cmds
    /\ last' = Call("render", -1, -1)
    /\ UNCHANGED <<pool_base, ssbo, transform, written, trace, build, panicked, pool, issued, coll, handles, imm,
                   submitted>>

NextPass == PassRender

SpecPass == InitPass /\ [][NextPass]_vars

\* C31: with a custom executor a render calls the executor exactly once and takes no
\* part of the default path: the core begins no render pass, records no command and
\* leaves draw_calls in its original order; the default ordered batching runs only
\* when no executor is set.
C31_ExecutorReplacesBatching ==
    [][IF pass.executor
       THEN /\ pass'.executed = pass.executed + 1
            /\ pass'.begun = pass.begun
            /\ cmds' = <<>>
            /\ draw_calls' = draw_calls
            /\ draw_calls' = submitted
       ELSE /\ pass'.executed = pass.executed
            /\ pass'.begun = pass.begun + 1
            /\ draw_calls' = execute_ordered_draw_calls(draw_calls, imm).draw_calls
            /\ cmds' = execute_ordered_draw_calls(draw_calls, imm).cmds
      ]_vars

\* a pass with an executor rendered a list that the batching would have reordered
C31_Witness ==
    /\ Rendered
    /\ pass.executor
    /\ pass.executed >= 1
    /\ draw_calls # sort_by(draw_calls)
    /\ cmds = <<>>

----------------------------------------------------------------------------
(* Specification of a storage whose values may own handles of the same storage *)

\* handles of a cell that the application holds: all but the ones stored values own
AppHeld(c) ==
    handles[c].owners - Cardinality({i \in 1..Len(coll.data) : coll.data[i].val = c})

InitNested == InitPool

\* a new entry with a plain value, or with a value that owns a clone of a live handle
NestedNew ==
    /\ panicked = "none"
    /\ coll.id_pool.available # <<>> \/ coll.id_pool.current < MaxEntries
    /\ \E val \in {PlainVal} \cup {c \in Cells : AppHeld(c) > 0} :
        /\ TotalHandles + (IF val = PlainVal THEN 1 ELSE 2) <= MaxHandles
        /\ LET hs == IF val = PlainVal THEN handles
                     ELSE [handles EXCEPT ![val] = Managed_clone(handles[val])]
               r == CollectionInner_create(coll, val)
               cell == CHOOSE c \in Cells : hs[c].owners = 0 /\
                                             \A d \in Cells : hs[d].owners = 0 => c <= d
           IN  /\ coll' = r.coll
               /\ handles' = [hs EXCEPT ![cell] = Managed_new(r.id)]
               /\ last' = Call("new", val, r.id)
    /\ UNCHANGED <<ext, trace, build, panicked, pool, issued, imm, draw_calls, submitted, cmds>>

NestedDrop ==
    /\ panicked = "none"
    /\ \E c \in Cells :
        /\ AppHeld(c) > 0
        /\ LET r == Managed_drop_outer(handles, coll, c, build) IN
            /\ handles' = r.handles
            /\ coll' = r.coll
            /\ panicked' = r.panic
        /\ last' = Call("drop", handles[c].instance_id, -1)
    /\ UNCHANGED <<ext, trace, build, pool, issued, imm, draw_calls, submitted, cmds>>

NextNested == NestedNew \/ ManagedClone \/ NestedDrop

SpecNested == InitNested /\ [][NextNested]_vars

ValOf(c, id) == c.data[binary_search_by_key(c.data, id).index + 1].val

\* C32: the drop of the last handle of an entry whose stored value owns the last
\* handle of another entry of the same storage completes and deletes both entries:
\* no second mutable borrow is asked for while the delete is in progress.
C32_NestedDropCompletes ==
    [][\A c, d \in Cells :
          (/\ last'.op = "drop"
           /\ handles[c].owners = 1 /\ handles'[c].owners = 0
           /\ Lookup(coll, handles[c].instance_id)
           /\ ValOf(coll, handles[c].instance_id) = d
           /\ handles[d].owners = 1)
          => /\ panicked' = "none"
             /\ handles[c].instance_id \notin Ids(coll')
             /\ handles[d].instance_id \notin Ids(coll')
      ]_vars

\* C33: a delete called with an id that has no entry fails and leaves the storage and
\* its id pool unchanged: the id is not added to the free list.
C33_FailedDeleteChangesNothing ==
    [][(last'.op = "delete" /\ last'.arg \notin Ids(coll)) =>
          /\ panicked' # "none"
          /\ coll'.data = coll.data
          /\ coll'.id_pool = coll.id_pool
      ]_vars

----------------------------------------------------------------------------
(* Specification of the bytes of one written ImmediateManager allocation *)

\* calls the model makes on the manager
MaxByteCalls == 5
\* allocation sizes: none, one that fits the first buffer, and one that does not fit
\* behind it
ByteSizes == {0, 8, 64}
\* byte values a caller writes; the buffer is filled with 0
ByteValues == {1, 2}

InitBytes == InitPool

\* `trace` holds one mark per call made
BytesAdd ==
    /\ panicked = "none"
    /\ Len(trace) < MaxByteCalls
    /\ \E size \in ByteSizes :
        LET r == ImmediateManager_add(imm, size, build) IN
        /\ imm' = r.imm
        /\ panicked' = r.panic
        /\ last' = Call("add", size, r.id)
    /\ trace' = Append(trace, "call")
    /\ UNCHANGED <<pass, pool_base, ssbo, transform, written, build, pool, issued, coll, handles, draw_calls, submitted, cmds>>

\* remove of any id; the written allocation is forgotten when it is the one removed
BytesRemove ==
    /\ panicked = "none"
    /\ Len(trace) < MaxByteCalls
    /\ \E id \in 0..Len(trace) :
        LET r == ImmediateManager_remove(imm, id, build) IN
        /\ imm' = r.imm
        /\ panicked' = r.panic
        /\ written' = IF written # None /\ written[1].id = id THEN None ELSE written
        /\ last' = Call("remove", id, -1)
    /\ trace' = Append(trace, "call")
    /\ UNCHANGED <<pass, pool_base, ssbo, transform, build, pool, issued, coll, handles, draw_calls, submitted, cmds>>

\* a write through get_mut, to the written allocation or, when there is none, to any
\* live one
BytesWrite ==
    /\ panicked = "none"
    /\ Len(trace) < MaxByteCalls
    /\ \E id \in LiveIds(imm), b \in ByteValues :
        /\ IF written = None THEN TRUE ELSE written[1].id = id
        /\ LET r == ImmediateManager_write(imm, id, b) IN
            /\ imm' = r.imm
            /\ panicked' = r.panic
            /\ written' = IF r.panic = "none"
                           THEN Some([id |-> id,
                                      data |-> Repeat(b, RangeOf(imm, id).end
                                                         - RangeOf(imm, id).start)])
                           ELSE written
        /\ last' = Call("write", id, b)
    /\ trace' = Append(trace, "call")
    /\ UNCHANGED <<pass, pool_base, ssbo, transform, build, pool, issued, coll, handles, draw_calls, submitted, cmds>>

NextBytes == BytesAdd \/ BytesRemove \/ BytesWrite

SpecBytes == InitBytes /\ [][NextBytes]_vars

\* C34: the bytes written through get_mut to a live allocation are read back unchanged
\* by get for as long as the id stays live, across any sequence of add and remove
\* calls on other ids, adds that grow the buffer and adds of size 0 included.
C34_WrittenBytesKept ==
    written # None =>
        /\ ImmediateManager_get(imm, written[1].id).panic = "none"
        /\ ImmediateManager_get(imm, written[1].id).slice = Some(written[1].data)

\* a written allocation of 8 bytes has seen another id grow the buffer and be removed,
\* and the id come back with an add of size 0
C34_Witness ==
    /\ written # None
    /\ Len(written[1].data) = 8
    /\ Len(imm.bytes) > MinBytes
    /\ last.op = "add" /\ last.arg = 0 /\ last.ret # written[1].id
    /\ RangeOf(imm, last.ret).end = RangeOf(imm, last.ret).start
    /\ panicked = "none"

\* the immediate data the pass holds when the command at position i is recorded: the
\* id of the last set_immediates before it, the pass keeping what was set until it
\* is set again
ImmediatesInEffect(i) ==
    LET S == {j \in Positions("set_immediates") : j < i}
    IN  IF S = {} THEN None ELSE Some(cmds[LastOf(S)].b)

\* the immediate data a draw call brings itself
OwnImmediates(d) == IF d.immediates # None /\ ~Unresolved(d) THEN d.immediates ELSE None

\* C35: the immediate bytes in effect when a draw command is emitted depend only on
\* that draw call: a draw call with no immediate data, or with an id that does not
\* resolve, never executes with bytes that were set for an earlier draw call of the
\* same pass.
C35_ImmediatesPerDrawCall ==
    Rendered =>
        \A k \in 1..Len(draw_calls) :
            ImmediatesInEffect(NthDraw(k)) = OwnImmediates(draw_calls[k])

----------------------------------------------------------------------------
(* Specification of a stand-alone IdPool created with a base, under valid use *)

InitValid ==
    /\ build \in Profiles
    /\ panicked = "none"
    /\ last = NoCall
    /\ pool_base \in Bases
    /\ pool = IdPool_with_base(pool_base)
    /\ issued = {}
    /\ coll = CollectionInner_new
    /\ handles = IdleHandles
    /\ imm = ImmediateManager_new
    /\ draw_calls = <<>>
    /\ submitted = <<>>
    /\ cmds = <<>>
    /\ trace = <<>>
    /\ pass = NoPass
    /\ ssbo = NoSsbo
    /\ transform = NoTransform
    /\ written = None

NextValid == PoolGetNext \/ PoolFree

SpecValid == InitValid /\ [][NextValid]_vars

\* C36: under valid use of a pool (free only of ids currently issued), in every
\* reachable state the free list has no duplicates, is disjoint from the set of ids
\* issued and not freed, and together with that set is exactly the range from the
\* base to the counter minus one.
C36_PoolPartition ==
    /\ \A id \in Freed_ids(pool) : Count(pool.available, id) = 1
    /\ Freed_ids(pool) \cap issued = {}
    /\ Freed_ids(pool) \cup issued = pool_base..(pool.current - 1)
    /\ panicked = "none"

\* a pool with base 2 holds two freed ids and an issued one, right after get_next
\* handed out a recycled id
C36_Witness ==
    /\ pool_base = 2
    /\ Len(pool.available) >= 2
    /\ issued # {}
    /\ last.op = "get_next"
    /\ last.ret + 1 < pool.current

\* C37: remove(id) on an id that is not live (never issued, beyond the slot table, or
\* already removed) is a no-op: it does not fail, changes no slot and no byte of the
\* buffer, and does not push the id onto the free list of the pool.
C37_RemoveNotLiveNoOp ==
    [][(last'.op = "remove" /\ last'.arg \notin issued) =>
          /\ panicked' = "none"
          /\ imm'.entries = imm.entries
          /\ imm'.bytes = imm.bytes
          /\ imm'.id_pool = imm.id_pool
      ]_vars

\* remove was given an id that had been removed before, while another id was live
C37_Witness ==
    /\ last.op = "remove"
    /\ last.arg \notin issued
    /\ last.arg < imm.id_pool.current
    /\ Count(imm.id_pool.available, last.arg) = 1
    /\ issued # {}
    /\ panicked = "none"

----------------------------------------------------------------------------
(* ssbo::SsboManagerInner and ssbo::Uniform *)

\* the types T a value is uploaded as, and std::mem::size_of::<T>()
Types == {"u8", "u16"}
size_of(t) == IF t = "u8" THEN 1 ELSE 2

\* Ssbo::new::<T>()
Ssbo_new(t) ==
    [type_info |-> [size |-> size_of(t), type_id |-> t],
     updated_range |-> Range(0, 0),
     staging_buffer |-> <<>>,
     entries |-> <<>>]

\* SsboManagerInner::default(): no table for any type
SsboManagerInner_default == [ssbo_map |-> [t \in Types |-> None], ssbo_ids |-> IdPool_new]

find_by_id(data, id) == binary_search_by_key(data.entries, id)

\* get_ssbo::<T>(): the table of the type, inserted empty when missing
get_ssbo(m, t) == IF m.ssbo_map[t] = None THEN Ssbo_new(t) ELSE m.ssbo_map[t][1]

\* bytemuck::bytes_of(val): size_of::<T>() bytes
bytes_of(t, val) == Repeat(val, size_of(t))

\* upload_uniform::<T>: overwrite the bytes of the id's entry in the table of T, or
\* append them and insert an entry
SsboManagerInner_upload_uniform(m, id, t, val) ==
    LET entry == get_ssbo(m, t)
        slice == bytes_of(t, val)
        found == find_by_id(entry, id)
        new_entry ==
            IF found.ok
            THEN LET offset == entry.entries[found.index + 1].offset_in_buffer IN
                 [entry EXCEPT !.staging_buffer =
                     [i \in 1..Len(entry.staging_buffer) |->
                         IF offset < i /\ i <= offset + entry.type_info.size
                         THEN slice[i - offset] ELSE entry.staging_buffer[i]]]
            ELSE [entry EXCEPT
                     !.staging_buffer = entry.staging_buffer \o slice,
                     !.entries = InsertAt(entry.entries, found.index + 1,
                                          [id |-> id,
                                           offset_in_buffer |-> Len(entry.staging_buffer)])]
    IN  [m EXCEPT !.ssbo_map[t] = Some(new_entry)]

\* the tables that hold an entry for the id
Holders(m, id) ==
    {t \in Types : m.ssbo_map[t] # None /\ find_by_id(m.ssbo_map[t][1], id).ok}

\* remove_uniform: `for data in self.ssbo_map.values_mut()` removes the entry from the
\* first table that holds one and returns. The map is a hash map: which holder comes
\* first is up to the build, so every holder is a possible outcome
SsboManagerInner_remove_uniform(m, id) ==
    IF Holders(m, id) = {} THEN {m}
    ELSE {[m EXCEPT !.ssbo_map[t] =
               Some([m.ssbo_map[t][1] EXCEPT
                        !.entries = RemoveAt(@, find_by_id(m.ssbo_map[t][1], id).index + 1)])]
          : t \in Holders(m, id)}

----------------------------------------------------------------------------
(* Specification of the Uniform handles of one SsboManager *)

\* calls the model makes, and the byte a caller uploads
MaxSsboCalls == 5
UniformValues == {7}

\* `ssbo.counter[id + 1]` is the value of the counter the handles of id share, 0 when
\* no handle exists
InitSsbo ==
    /\ build \in Profiles
    /\ panicked = "none"
    /\ last = NoCall
    /\ pool = IdPool_new
    /\ issued = {}
    /\ coll = CollectionInner_new
    /\ handles = IdleHandles
    /\ imm = ImmediateManager_new
    /\ draw_calls = <<>>
    /\ submitted = <<>>
    /\ cmds = <<>>
    /\ trace = <<>>
    /\ pass = NoPass
    /\ pool_base = 0
    /\ ssbo = [inner |-> SsboManagerInner_default, counter |-> <<>>]
    /\ transform = NoTransform
    /\ written = None

SsboFrame ==
    /\ trace' = Append(trace, "call")
    /\ UNCHANGED <<pass, pool_base, transform, written, build, panicked, pool, issued, coll,
                   handles, imm, draw_calls, submitted, cmds>>

\* a new Uniform: an id of ssbo_ids and a counter of 1
UniformNew ==
    /\ panicked = "none"
    /\ Len(trace) < MaxSsboCalls
    /\ LET n == IdPool_get_next(ssbo.inner.ssbo_ids) IN
        /\ ssbo' = [inner |-> [ssbo.inner EXCEPT !.ssbo_ids = n.pool],
                    counter |-> Append(ssbo.counter, 1)]
        /\ last' = Call("new", -1, n.id)
    /\ SsboFrame

LiveUniforms == {id \in 0..(Len(ssbo.counter) - 1) : ssbo.counter[id + 1] > 0}

\* Uniform::upload::<T>
UniformUpload ==
    /\ panicked = "none"
    /\ Len(trace) < MaxSsboCalls
    /\ \E id \in LiveUniforms, t \in Types, val \in UniformValues :
        /\ ssbo' = [ssbo EXCEPT !.inner = SsboManagerInner_upload_uniform(@, id, t, val)]
        /\ last' = Call("upload", id, -1)
    /\ SsboFrame

\* Uniform::clone
UniformClone ==
    /\ panicked = "none"
    /\ Len(trace) < MaxSsboCalls
    /\ \E id \in LiveUniforms :
        /\ ssbo' = [ssbo EXCEPT !.counter[id + 1] = @ + 1]
        /\ last' = Call("clone", id, -1)
    /\ SsboFrame

\* Uniform::drop: decrement, and remove_uniform when the counter reads 0
UniformDrop ==
    /\ panicked = "none"
    /\ Len(trace) < MaxSsboCalls
    /\ \E id \in LiveUniforms :
        /\ IF ssbo.counter[id + 1] - 1 = 0
           THEN \E m \in SsboManagerInner_remove_uniform(ssbo.inner, id) :
                    ssbo' = [inner |-> m, counter |-> [ssbo.counter EXCEPT ![id + 1] = 0]]
           ELSE ssbo' = [ssbo EXCEPT !.counter[id + 1] = @ - 1]
        /\ last' = Call("drop", id, -1)
    /\ SsboFrame

NextSsbo == UniformNew \/ UniformUpload \/ UniformClone \/ UniformDrop

SpecSsbo == InitSsbo /\ [][NextSsbo]_vars

\* C38: after the last clone of a Uniform handle of an id is dropped, no per-type
\* entry table still holds an entry for that id, also when values of several types
\* were uploaded through the handle.
C38_NoEntryAfterLastDrop ==
    \A id \in 0..(Len(ssbo.counter) - 1) :
        ssbo.counter[id + 1] = 0 => Holders(ssbo.inner, id) = {}

----------------------------------------------------------------------------
(* transform::Transform over glam's Mat4 and Mat3 *)

\* a matrix is the sequence of its columns (x_axis, y_axis, z_axis, w_axis). The
\* entries of a Mat4 are integers: the vectors below keep every product exact. An
\* entry of a Mat3 is an f32 that may be infinite or NaN
Fin(v) == [k |-> "fin", v |-> v]
Inf(sign) == [k |-> "inf", v |-> sign]
NaN == [k |-> "nan", v |-> 0]

Mat4_ZERO == [j \in 1..4 |-> [i \in 1..4 |-> 0]]
Mat4_from_translation(p) ==
    <<<<1, 0, 0, 0>>, <<0, 1, 0, 0>>, <<0, 0, 1, 0>>, <<p[1], p[2], p[3], 1>>>>
\* the rotation matrix of the identity and of a quarter turn about the z axis
Mat4_from_quat(q) ==
    IF q = "IDENTITY"
    THEN <<<<1, 0, 0, 0>>, <<0, 1, 0, 0>>, <<0, 0, 1, 0>>, <<0, 0, 0, 1>>>>
    ELSE <<<<0, 1, 0, 0>>, <<-1, 0, 0, 0>>, <<0, 0, 1, 0>>, <<0, 0, 0, 1>>>>
Mat4_from_scale(sc) ==
    <<<<sc[1], 0, 0, 0>>, <<0, sc[2], 0, 0>>, <<0, 0, sc[3], 0>>, <<0, 0, 0, 1>>>>

\* Mat4 * Mat4: column j of the product is A applied to column j of B
Mat4_mul(A, B) ==
    [j \in 1..4 |-> [i \in 1..4 |->
        A[1][i] * B[j][1] + A[2][i] * B[j][2] + A[3][i] * B[j][3] + A[4][i] * B[j][4]]]

Mat3_from_mat4(m) == [j \in 1..3 |-> [i \in 1..3 |-> m[j][i]]]

Cross(a, b) ==
    <<a[2] * b[3] - a[3] * b[2], a[3] * b[1] - a[1] * b[3], a[1] * b[2] - a[2] * b[1]>>

\* c * (1 / det) in f32: 1 / 0 is infinite, and 0 * infinity is NaN
MulRecip(c, det) ==
    IF det # 0 THEN Fin(c \div det)
    ELSE IF c = 0 THEN NaN
    ELSE Inf(IF c > 0 THEN 1 ELSE -1)

\* Mat3::inverse().transpose(): the cross products of the columns over the determinant
Mat3_inverse_transpose(m) ==
    LET tmp == <<Cross(m[2], m[3]), Cross(m[3], m[1]), Cross(m[1], m[2])>>
        det == m[3][1] * tmp[3][1] + m[3][2] * tmp[3][2] + m[3][3] * tmp[3][3]
    IN  [j \in 1..3 |-> [i \in 1..3 |-> MulRecip(tmp[j][i], det)]]

invalid_model == Mat4_ZERO

\* Mat3::ZERO with x_axis.y set to NaN
invalid_normal_matrix ==
    [j \in 1..3 |-> [i \in 1..3 |-> IF j = 1 /\ i = 2 THEN NaN ELSE Fin(0)]]

\* `self.model.w_axis.w == 0.0`
is_invalid_model(t) == t.model[4][4] = 0

\* `self.normal_matrix.x_axis.y.is_nan()`
is_invalid_normal_matrix(t) == t.normal_matrix[1][2].k = "nan"

Transform_default ==
    [position |-> <<0, 0, 0>>, orientation |-> "IDENTITY", scale |-> <<1, 1, 1>>,
     model |-> invalid_model, normal_matrix |-> invalid_normal_matrix]

\* a set_position that leaves the cached model in place
Transform_set_position_keeps_model(t, position) == [t EXCEPT !.position = position]

Transform_set_position(t, position) ==
    [t EXCEPT !.position = position, !.model = invalid_model]

Transform_set_orientation(t, orientation) ==
    [t EXCEPT !.orientation = orientation, !.model = invalid_model,
              !.normal_matrix = invalid_normal_matrix]

Transform_set_scale(t, scale) ==
    [t EXCEPT !.scale = scale, !.model = invalid_model,
              !.normal_matrix = invalid_normal_matrix]

\* get_model: recompute translation * rotation * scale when the cache is invalid
Transform_get_model(t) ==
    LET model == IF is_invalid_model(t)
                 THEN Mat4_mul(Mat4_mul(Mat4_from_translation(t.position),
                                        Mat4_from_quat(t.orientation)),
                               Mat4_from_scale(t.scale))
                 ELSE t.model
    IN  [transform |-> [t EXCEPT !.model = model], ret |-> model]

\* get_normal_matrix: recompute from get_model when the cache is invalid
Transform_get_normal_matrix(t) ==
    IF is_invalid_normal_matrix(t)
    THEN LET g == Transform_get_model(t)
             normal_matrix == Mat3_inverse_transpose(Mat3_from_mat4(g.ret))
         IN  [transform |-> [g.transform EXCEPT !.normal_matrix = normal_matrix],
              ret |-> normal_matrix]
    ELSE [transform |-> t, ret |-> t.normal_matrix]

----------------------------------------------------------------------------
(* Specification of one Transform *)

\* the vectors and orientations a caller sets; the last scale is singular
PositionValues == {<<0, 0, 0>>, <<1, 2, 3>>}
OrientationValues == {"IDENTITY", "QUARTER_TURN_Z"}
ScaleValues == {<<1, 1, 1>>, <<-1, 1, 1>>, <<0, 1, 1>>}

InitTransform ==
    /\ build \in Profiles
    /\ panicked = "none"
    /\ last = NoCall
    /\ pool = IdPool_new
    /\ issued = {}
    /\ coll = CollectionInner_new
    /\ handles = IdleHandles
    /\ imm = ImmediateManager_new
    /\ draw_calls = <<>>
    /\ submitted = <<>>
    /\ cmds = <<>>
    /\ trace = <<>>
    /\ pass = NoPass
    /\ pool_base = 0
    /\ ssbo = NoSsbo
    /\ transform = Transform_default
    /\ written = None

TransformFrame ==
    UNCHANGED <<pass, pool_base, ssbo, written, trace, build, panicked, pool, issued, coll,
                handles, imm, draw_calls, submitted, cmds>>

SetPosition ==
    /\ \E position \in PositionValues :
        /\ transform' = Transform_set_position(transform, position)
        /\ last' = Call("set_position", position, -1)
    /\ TransformFrame

SetOrientation ==
    /\ \E orientation \in OrientationValues :
        /\ transform' = Transform_set_orientation(transform, orientation)
        /\ last' = Call("set_orientation", orientation, -1)
    /\ TransformFrame

SetScale ==
    /\ \E scale \in ScaleValues :
        /\ transform' = Transform_set_scale(transform, scale)
        /\ last' = Call("set_scale", scale, -1)
    /\ TransformFrame

GetModel ==
    /\ LET g == Transform_get_model(transform) IN
        /\ transform' = g.transform
        /\ last' = Call("get_model", -1, g.ret)
    /\ TransformFrame

GetNormalMatrix ==
    /\ LET g == Transform_get_normal_matrix(transform) IN
        /\ transform' = g.transform
        /\ last' = Call("get_normal_matrix", -1, g.ret)
    /\ TransformFrame

NextTransform == SetPosition \/ SetOrientation \/ SetScale \/ GetModel \/ GetNormalMatrix

SpecTransform == InitTransform /\ [][NextTransform]_vars

\* what a Transform without caches returns for the current fields
UncachedModel ==
    Mat4_mul(Mat4_mul(Mat4_from_translation(transform.position),
                      Mat4_from_quat(transform.orientation)),
             Mat4_from_scale(transform.scale))
UncachedNormalMatrix ==
    Mat3_inverse_transpose(Mat3_from_mat4(
        Mat4_mul(Mat4_from_quat(transform.orientation), Mat4_from_scale(transform.scale))))

\* C39: the cached matrices are never returned stale: after any sequence of setters
\* and getters, get_model returns the model matrix of the current position,
\* orientation and scale and get_normal_matrix the normal matrix of the current
\* orientation and scale, as a Transform without caches would.
C39_GettersNeverStale ==
    /\ last.op = "get_model" => last.ret = UncachedModel
    /\ last.op = "get_normal_matrix" => last.ret = UncachedNormalMatrix
    /\ ~is_invalid_model(transform) => transform.model = UncachedModel
    /\ ~is_invalid_normal_matrix(transform) => transform.normal_matrix = UncachedNormalMatrix

\* get_normal_matrix answered from its cache while the model cache was invalid, after
\* a set_position moved a turned and mirrored transform
C39_Witness ==
    /\ last.op = "get_normal_matrix"
    /\ is_invalid_model(transform)
    /\ ~is_invalid_normal_matrix(transform)
    /\ transform.position = <<1, 2, 3>>
    /\ transform.orientation = "QUARTER_TURN_Z"
    /\ transform.scale = <<-1, 1, 1>>

====
